---------------------------- MODULE Spec2Model ----------------------------
(***************************************************************************)
(* A model of the ESP32 quadrature-encoder / HX711 load-cell firmware.     *)
(*                                                                         *)
(*   EncoderReader/encoder.cpp         decoder (software ISR variant and   *)
(*                                     hardware PCNT variant), estimator   *)
(*   ArduinoEncoderSketch/encoder.cpp  table decoder without glitch filter *)
(*   src/main.cpp                      standalone reader (branch decoder)  *)
(*   ArduinoEncoderSketch/loadcell.cpp HX711 sampler, tare, calibration    *)
(*                                                                         *)
(* Number representations.  TLC's integers are 32-bit signed, so           *)
(*   - a uint32_t is a pair <<hi, lo>> of 16-bit halves, with arithmetic   *)
(*     modulo 2^32 done on the halves;                                     *)
(*   - a float is a record [s, m, e] of value (-1)^s * m * 2^e with a      *)
(*     24-bit significand m (2^23 <= m < 2^24, or m = 0 for zero), and     *)
(*     every operation rounds to nearest, ties to even, as IEEE-754        *)
(*     binary32 does.  Zero is kept unsigned and the exponent unbounded:   *)
(*     no value of the model comes near the subnormal or infinite range.   *)
(***************************************************************************)
EXTENDS Integers, Naturals, Sequences, FiniteSets, TLC

(***************************************************************************)
(* uint32_t                                                                *)
(***************************************************************************)
Half == 2^16

U32(hi, lo) == <<hi, lo>>

\* The uint32_t of a number 0 <= n < 2^31.
ToU32(n) == <<n \div Half, n % Half>>

U32Zero == <<0, 0>>

U32Set == (0 .. Half - 1) \X (0 .. Half - 1)

\* a - b on uint32_t (unsigned subtraction, modulo 2^32).
Sub32(a, b) ==
  LET lo     == a[2] - b[2]
      borrow == IF lo < 0 THEN 1 ELSE 0
  IN  <<(a[1] - b[1] - borrow) % Half, lo % Half>>

\* a + b on uint32_t (modulo 2^32).
Add32(a, b) ==
  LET lo    == a[2] + b[2]
      carry == lo \div Half
  IN  <<(a[1] + b[1] + carry) % Half, lo % Half>>

\* Unsigned comparisons.
Lt32(a, b) == a[1] < b[1] \/ (a[1] = b[1] /\ a[2] < b[2])
Ge32(a, b) == ~Lt32(a, b)
Gt32(a, b) == Lt32(b, a)

(***************************************************************************)
(* float (IEEE-754 binary32, round to nearest even)                        *)
(***************************************************************************)
FZero == [s |-> 0, m |-> 0, e |-> 0]

RECURSIVE BitLen(_)
BitLen(n) == IF n = 0 THEN 0 ELSE 1 + BitLen(n \div 2)

\* The exponent of the subnormal floats, and of the smallest normal one
\* (m = 2^23): a float is m * 2^e with 2^23 <= m < 2^24, or with m < 2^23
\* and e = FMinExp.
FMinExp == -149

\* The float nearest to (-1)^s * (m + t) * 2^e, where 0 <= m < 2^31 and t is
\* some value in (0,1) when sticky and 0 otherwise.  A sticky m carries at
\* least 26 bits.  Below 2^-126 the result keeps the exponent FMinExp and
\* fewer bits (gradual underflow).
FRound(s, m, e, sticky) ==
  IF m = 0 THEN FZero
  ELSE LET k0 == BitLen(m) - 24
           k  == IF e + k0 < FMinExp THEN FMinExp - e ELSE k0
       IN  IF k <= 0
           THEN [s |-> s, m |-> m * 2^(-k), e |-> e + k]
           ELSE IF k > 31 THEN FZero
           ELSE LET half == 2^(k - 1)
                    q    == (m \div half) \div 2
                    r    == m - q * 2 * half
                    up   == r > half \/ (r = half /\ (sticky \/ q % 2 = 1))
                    q1   == IF up THEN q + 1 ELSE q
                IN  IF q1 = 0 THEN FZero
                    ELSE IF q1 = 2^24
                    THEN [s |-> s, m |-> 2^23, e |-> e + k + 1]
                    ELSE [s |-> s, m |-> q1, e |-> e + k]

\* A float with its significand shifted up to 24 bits, for the operations
\* that count on it.
FNorm(a) ==
  IF a.m = 0 \/ a.m >= 2^23 THEN a
  ELSE LET sh == 24 - BitLen(a.m)
       IN  [a EXCEPT !.m = a.m * 2^sh, !.e = a.e - sh]

\* (float)n for a signed integer |n| < 2^31.
FInt(n) == IF n < 0 THEN FRound(1, -n, 0, FALSE) ELSE FRound(0, n, 0, FALSE)

\* (float)u for a uint32_t.
FU32(u) ==
  IF u[1] < Half \div 2
  THEN FRound(0, u[1] * Half + u[2], 0, FALSE)
  ELSE FRound(0, u[1] * (Half \div 2) + u[2] \div 2, 1, u[2] % 2 = 1)

FNeg(a) == IF a.m = 0 THEN a ELSE [a EXCEPT !.s = 1 - a.s]
FAbs(a) == [a EXCEPT !.s = 0]

FIsZero(a) == a.m = 0
FPos(a)    == a.m # 0 /\ a.s = 0
FNegative(a) == a.m # 0 /\ a.s = 1

\* |a| < |b|
FMagLt(a, b) ==
  IF b.m = 0 THEN FALSE
  ELSE IF a.m = 0 THEN TRUE
  ELSE a.e < b.e \/ (a.e = b.e /\ a.m < b.m)

\* a < b
FLt(a, b) ==
  IF FNegative(a) THEN (IF FNegative(b) THEN FMagLt(b, a) ELSE TRUE)
  ELSE IF FNegative(b) THEN FALSE
  ELSE FMagLt(a, b)

FGt(a, b) == FLt(b, a)

\* n steps of binary long division: <<quotient, remainder>> of r * 2^n by d,
\* where r < d, continuing the quotient q.
RECURSIVE LongDiv(_, _, _, _)
LongDiv(r, d, n, q) ==
  IF n = 0 THEN <<q, r>>
  ELSE IF 2 * r >= d THEN LongDiv(2 * r - d, d, n - 1, 2 * q + 1)
                     ELSE LongDiv(2 * r, d, n - 1, 2 * q)

\* a / b, b nonzero.
FDiv(a, b) ==
  IF a.m = 0 THEN FZero
  ELSE LET an == FNorm(a)
           bn == FNorm(b)
           qr == LongDiv(an.m % bn.m, bn.m, 26, an.m \div bn.m)
       IN  FRound((a.s + b.s) % 2, qr[1], an.e - bn.e - 26, qr[2] # 0)

\* a * b
FMul(a, b) ==
  IF a.m = 0 \/ b.m = 0 THEN FZero
  ELSE LET an   == FNorm(a)
           bn   == FNorm(b)
           ah   == an.m \div 4096
           al   == an.m % 4096
           bh   == bn.m \div 4096
           bl   == bn.m % 4096
           mid  == ah * bl + al * bh
           low  == (mid % 4096) * 4096 + al * bl
           high == ah * bh + mid \div 4096 + low \div 16777216
           lrem == low % 16777216
       IN  FRound((a.s + b.s) % 2, high * 16 + lrem \div 1048576,
                  an.e + bn.e + 20, lrem % 1048576 # 0)

\* a + b, for |a| >= |b|, both nonzero.
FAddOrdered(a, b) ==
  LET d  == a.e - b.e
      A  == a.m * 8
      B  == IF d > 27 THEN 0 ELSE (b.m * 8) \div 2^d
      st == IF d > 27 THEN TRUE ELSE (b.m * 8) % 2^d # 0
  IN  IF a.s = b.s THEN FRound(a.s, A + B, a.e - 3, st)
      ELSE IF st THEN FRound(a.s, A - B - 1, a.e - 3, TRUE)
      ELSE FRound(a.s, A - B, a.e - 3, FALSE)

\* a + b
FAdd(a, b) ==
  IF a.m = 0 THEN b
  ELSE IF b.m = 0 THEN a
  ELSE IF FMagLt(a, b) THEN FAddOrdered(b, a) ELSE FAddOrdered(a, b)

FSub(a, b) == FAdd(a, FNeg(b))

\* The float literal num/den (a decimal literal such as 0.40f = 4/10).
FLit(num, den) == FDiv(FInt(num), FInt(den))


(***************************************************************************)
(* Configuration (ArduinoEncoderSketch/config.h, src/main.cpp)             *)
(***************************************************************************)
MIN_EDGE_INTERVAL_US == 10
VELOCITY_TIMEOUT_US == 500000
SPEED_SAMPLE_US == 10000
ENC_PPR == 1024
EMA_ALPHA == FLit(4, 10)

\* src/main.cpp has its own sampling window and smoothing factor.
STANDALONE_SPEED_SAMPLE_US == 50000
STANDALONE_EMA_ALPHA == FLit(3, 10)

\* Load cells (ArduinoEncoderSketch/config.h, loadcell.cpp).
NUM_LOADCELLS == 2
HX711_READ_SAMPLES == 8
FORCE_IIR_ALPHA == FLit(15, 100)
FLUSH_TIMEOUT_US == 100000

\* The build that is running: EncoderReader/encoder.cpp with
\* USE_HARDWARE_PCNT 0 ("isr") or 1 ("pcnt"), ArduinoEncoderSketch/encoder.cpp
\* ("sketch"), or src/main.cpp ("standalone").
Variants == {"isr", "pcnt", "sketch", "standalone"}

(***************************************************************************)
(* Bounds of the model                                                     *)
(***************************************************************************)
\* Operations in one run of SpecDecode, of SpecPosition, of SpecVelocity.
MaxDecodeSteps == 4
MaxPositionSteps == 4
MaxVelocitySteps == 4
\* Transitions in the forward half of a sequence (SpecSeq).
MaxSeqLen == 3

\* Timer values at start-up: zero, and just before the 32-bit wraparound.
StartClocks == {U32Zero, U32(Half - 1, Half - 6)}

\* Microseconds the timer may have advanced by when an operation runs.
\* Decoding: none, less than the glitch interval, the glitch interval.
DecodeDelays == {0, 4, MIN_EDGE_INTERVAL_US}
\* Estimator calls: shortly after, and a sampling window after.
TickDelays == {MIN_EDGE_INTERVAL_US, SPEED_SAMPLE_US}
\* Estimator calls with the timeout in play: also more than the timeout after.
VelocityDelays == {MIN_EDGE_INTERVAL_US, SPEED_SAMPLE_US, VELOCITY_TIMEOUT_US + 1}
\* Edges of a sequence: closer than the glitch interval, at it, and far apart
\* (a multiple of 2^16 microseconds).
SeqDelays == {4, MIN_EDGE_INTERVAL_US, 3 * 65536}

\* Arguments of setPosition.
SetPositions == {5, -3, 4 * 65536, 8 * 65536 + 7}

\* Pulse bursts the pulse counter may count between two software operations.
PulseBursts == {1, -1, 32766, -32767}

\* Values the limit handler may read from PCNT.int_st.val (bits 0 and 1).
StatusWords == 0 .. 3

\* Operations in one run of SpecLoadCell.
MaxLoadCellSteps == 4

\* Interrupts and calls of the main loop in one run of SpecPreempt.
MaxPreemptSteps == 5
\* The timer when the main loop starts.
PreemptStartClocks == {U32(Half - 1, Half - 6)}
\* Microseconds from the event before to an interrupt, to a call.
PreemptIrqDelays == {MIN_EDGE_INTERVAL_US}
PreemptCallDelays == {SPEED_SAMPLE_US}
\* Pulse bursts of the pulse counter between two events.
PreemptBursts == {1, 32766}
\* Values the limit handler may read from PCNT.int_st.val.
PreemptStatus == {0, 1}
\* Channel indices passed to the load-cell functions: the channels and the
\* first index past them.
CellIndices == 0 .. NUM_LOADCELLS
\* The timer when setup() is over: initLoadCell() has waited 100 ms.
LoadCellStartClocks == {ToU32(FLUSH_TIMEOUT_US + 1)}
\* Microseconds between load-cell polls: more than the flush timeout, and
\* none (a poll right after another, which in SpecLoadCell finds a sample of
\* RepollWords on a channel, or has an index out of range).
LoadCellDelays == {FLUSH_TIMEOUT_US + 1}
RepollWords == {1000}
\* 24-bit words the HX711 may deliver (the last one is -4000).
SampleWords == {1000, 5999, 2^24 - 4000}
\* Polls in one run of SpecFlush: one more than the oversampling target.
MaxFlushPolls == 9
\* The timer when the polling starts: after setup(), and just before the
\* 32-bit wraparound.
FlushStartClocks == {ToU32(FLUSH_TIMEOUT_US + 1), U32(Half - 1, Half - 6)}
\* Microseconds between two polls: none, and the flush timeout (two such
\* polls in a row exceed it).
FlushDelays == {0, FLUSH_TIMEOUT_US}
\* 24-bit words the HX711 may deliver: the largest sample, 2^23 - 1, and the
\* most negative one, -2^23.
FlushWords == {2^23 - 1, 2^23}
\* Position changes over a sampling window, and the windows' lengths in
\* microseconds (SpecBlend).
BlendCounts == {0, 1, -1, 10, -10, 11, -11, 400, -400}
BlendWindows == {SPEED_SAMPLE_US, 10 * SPEED_SAMPLE_US, 20 * SPEED_SAMPLE_US}
\* Intervals between the last two accepted edges, in microseconds.
BlendEdgeDeltas == {0, MIN_EDGE_INTERVAL_US, SPEED_SAMPLE_US}
\* Operations in one run of SpecTick.
MaxTickSteps == 5
\* The timer at initEncoder(): zero, and two sampling windows before the
\* 32-bit wraparound.
TickStartClocks == {U32Zero, U32(Half - 1, Half - 2 * SPEED_SAMPLE_US)}
\* Events in one run of SpecWrite.
MaxWriteSteps == 6
\* Positions setPosition writes.
WritePositions == {5}
\* Calls of updateLoadCell in one run of SpecSample.
MaxSampleCalls == 3
\* Microseconds between two calls.
SampleDelays == {0, FLUSH_TIMEOUT_US + 1}
\* Flushes before the tare in one run of SpecSettle.
MaxSettleLoads == 2
\* Known weights passed to calibrateLoadCell.
CalWeights == {FInt(-1), FZero, FInt(7), FInt(10)}

VARIABLES
  variant,              \* the build (never changes)
  clock,                \* the microsecond timer read by micros_fast()
  positionCounts,       \* volatile int64_t (int32_t in src/main.cpp)
  lastStateAB,          \* volatile int8_t
  lastEdgeMicros,       \* volatile uint32_t
  edgeDeltaMicros,      \* volatile uint32_t
  indexFlag,            \* volatile bool
  lastDeltaSign,        \* volatile int8_t (EncoderReader)
  lastA, lastB,         \* static bool of updateQuadrature (src/main.cpp)
  lastEdgeDir,          \* volatile int32_t (src/main.cpp)
  emaCountsPerSec,      \* float
  lastSamplePos,        \* int64_t (lastLoopPosition in src/main.cpp)
  lastSample,           \* static uint32_t of the estimator
  lastSampleSet,        \* whether the function-static lastSample was initialised
  pcntCount,            \* the pulse counter's 16-bit register
  pcnt_overflow_count,  \* int16_t
  op,                   \* history: the last operation, its inputs and locals
  lastWrite,            \* history: the last resetPosition/setPosition not yet
                        \* followed by encoder motion
  steps,                \* history: operations the run may still take
  path,                 \* history (SpecSeq): phase states left behind, oldest first
  mode,                 \* history (SpecSeq): "fwd" or "rev"
  sumDeltas,            \* history (SpecSeq): sum of the transitions' signed deltas
  allSpaced,            \* history (SpecSeq): every edge came at least the glitch
                        \* interval after the one before
  fwdCount,             \* history (SpecSeq): transitions delivered forwards
  hx711ScaleCountsPerKg, \* float[NUM_LOADCELLS]
  hx711Offset,          \* int32_t[NUM_LOADCELLS]
  hx711Tared,           \* bool[NUM_LOADCELLS]
  filteredForceKg,      \* float[NUM_LOADCELLS]
  lastHxRaw,            \* int32_t[NUM_LOADCELLS]
  lastForceUpdateUs,    \* uint32_t[NUM_LOADCELLS]
  hxAccum,              \* static int32_t[NUM_LOADCELLS]
  hxCount,              \* static uint8_t[NUM_LOADCELLS]
  lastCal,              \* history: per channel, the last accepted calibration
                        \* whose offset is still in place
  lastTare,             \* history: per channel, the last tareLoadCell call, as
                        \* long as every flush since averaged to its offset
  everFlushed,          \* history: per channel, whether a flush has stored an
                        \* averaged reading yet
  pc,                   \* where the main loop stands inside the routine it runs
  intsOff,              \* noInterrupts() is in effect
  pending,              \* interrupts raised while masked, served at interrupts()
  loc,                  \* the locals of the routine the main loop runs
  hist                  \* history: positions held during a getPosition() call,
                        \* index pulses isrZ has seen since the last read of
                        \* the flag

decVars  == <<positionCounts, lastStateAB, lastEdgeMicros, edgeDeltaMicros,
              lastDeltaSign, lastA, lastB, lastEdgeDir>>
estVars  == <<emaCountsPerSec, lastSamplePos, lastSample, lastSampleSet>>
pcntVars == <<pcntCount, pcnt_overflow_count>>
seqVars  == <<path, mode, sumDeltas, allSpaced, fwdCount>>
lcHist   == <<lastCal, lastTare, everFlushed>>
lcVars   == <<hx711ScaleCountsPerKg, hx711Offset, hx711Tared, filteredForceKg,
              lastHxRaw, lastForceUpdateUs, hxAccum, hxCount>>
cpuVars  == <<pc, intsOff, pending, loc, hist>>

vars == <<variant, clock, decVars, indexFlag, estVars, pcntVars, op, lastWrite,
          steps, seqVars, lcVars, lastCal, lastTare, everFlushed, cpuVars>>

NoWrite == [kind |-> "none"]
NoCal == [kind |-> "none"]
NoTare == [kind |-> "none"]
NoLocals == [routine |-> "none"]
NoPending == [ab |-> FALSE, z |-> FALSE, pcnt |-> FALSE]
NoChannel == [lastHxRaw |-> 0, hx711Offset |-> 0, hx711Tared |-> FALSE,
              lastForceUpdateUs |-> U32Zero, hxCount |-> 0]
NoHist == [held |-> {}, zSince |-> FALSE, zLate |-> FALSE, wrote |-> FALSE,
           written |-> 0, since |-> 0, fresh |-> FALSE, race |-> FALSE]

(***************************************************************************)
(* Quadrature decoding                                                     *)
(***************************************************************************)
\* quadTable[(old << 2) | new], A = bit 1, B = bit 0.
quadTable == <<0, 1, -1, 0,   -1, 0, 0, 1,   1, 0, 0, -1,   0, -1, 1, 0>>

\* int8_t delta = quadTable[((lastStateAB & 0x3) << 2) | newState]
TableDelta(old, new) == quadTable[((old % 4) * 4 + new) + 1]

\* Mutants of the glitch filter: a strict comparison, and no filter at all.
GlitchFilterStrict(now) ==
  Gt32(Sub32(now, lastEdgeMicros), ToU32(MIN_EDGE_INTERVAL_US))

GlitchFilterOff(now) == TRUE

\* The glitch filter of updateFromAB_Fast.
GlitchFilterPass(now) ==
  Ge32(Sub32(now, lastEdgeMicros), ToU32(MIN_EDGE_INTERVAL_US))

\* updateFromAB_Fast(), reading `now` from micros_fast() and (a, b) from GPIO.in.
updateFromAB_Fast(now, a, b) ==
  LET newState == 2 * a + b
      delta    == TableDelta(lastStateAB, newState)
      accept   == delta # 0 /\ GlitchFilterPass(now)
  IN  /\ positionCounts'  = IF accept THEN positionCounts + delta ELSE positionCounts
      /\ edgeDeltaMicros' = IF accept THEN Sub32(now, lastEdgeMicros) ELSE edgeDeltaMicros
      /\ lastEdgeMicros'  = IF accept THEN now ELSE lastEdgeMicros
      /\ lastDeltaSign'   = IF accept THEN (IF delta > 0 THEN 1 ELSE -1) ELSE lastDeltaSign
      /\ lastStateAB'     = newState
      /\ op' = [name |-> "isr", old |-> lastStateAB, new |-> newState, now |-> now,
                accept |-> accept]

\* updateFromAB() of the sketch, reading (a, b) with digitalRead and `now` from
\* micros_fast().
updateFromAB(now, a, b) ==
  LET newState == 2 * a + b
      delta    == TableDelta(lastStateAB, newState)
  IN  /\ positionCounts'  = IF delta # 0 THEN positionCounts + delta ELSE positionCounts
      /\ edgeDeltaMicros' = IF delta # 0 THEN Sub32(now, lastEdgeMicros) ELSE edgeDeltaMicros
      /\ lastEdgeMicros'  = IF delta # 0 THEN now ELSE lastEdgeMicros
      /\ lastStateAB'     = newState
      /\ op' = [name |-> "isr", old |-> lastStateAB, new |-> newState, now |-> now,
                accept |-> delta # 0]

\* Mutant of the direction logic: the B branch tests aState == bState.
QuadratureDirSameTest(la, lb, aState, bState) ==
  IF la # aState THEN (IF aState = bState THEN 1 ELSE -1)
  ELSE IF lb # bState THEN (IF aState = bState THEN 1 ELSE -1)
  ELSE 0

\* The direction updateQuadrature computes from the stored and the new levels.
QuadratureDir(la, lb, aState, bState) ==
  IF la # aState THEN (IF aState = bState THEN 1 ELSE -1)
  ELSE IF lb # bState THEN (IF aState # bState THEN 1 ELSE -1)
  ELSE 0

AB(aState, bState) == (IF aState THEN 2 ELSE 0) + (IF bState THEN 1 ELSE 0)

\* updateQuadrature(aState, bState) of the standalone reader; `now` is what
\* micros_fast() returns.
updateQuadrature(now, aState, bState) ==
  LET dir == QuadratureDir(lastA, lastB, aState, bState)
      rec == [name |-> "isr", old |-> AB(lastA, lastB), new |-> AB(aState, bState),
              now |-> now, accept |-> dir # 0]
  IN  IF lastA = aState /\ lastB = bState
      THEN /\ UNCHANGED <<positionCounts, lastEdgeDir, edgeDeltaMicros,
                          lastEdgeMicros, lastA, lastB>>
           /\ op' = rec
      ELSE /\ positionCounts'  = IF dir # 0 THEN positionCounts + dir ELSE positionCounts
           /\ lastEdgeDir'     = IF dir # 0 THEN dir ELSE lastEdgeDir
           /\ edgeDeltaMicros' = IF dir # 0 THEN Sub32(now, lastEdgeMicros) ELSE edgeDeltaMicros
           /\ lastEdgeMicros'  = IF dir # 0 THEN now ELSE lastEdgeMicros
           /\ lastA' = aState
           /\ lastB' = bState
           /\ op' = rec

(***************************************************************************)
(* Hardware pulse counter (EncoderReader, USE_HARDWARE_PCNT)               *)
(***************************************************************************)
\* initPCNT: counter_h_lim, counter_l_lim.
PCNT_H_LIM == 32767
PCNT_L_LIM == -32768

\* pcnt_overflow_handler, given the value it reads from PCNT.int_st.val
\* (unit is PCNT_UNIT_0: it tests bit 0, then bit 1).
pcnt_overflow_handler(status) ==
  IF status % 2 = 1 THEN pcnt_overflow_count + 1
  ELSE IF (status \div 2) % 2 = 1 THEN pcnt_overflow_count - 1
  ELSE pcnt_overflow_count

\* readPCNTPosition()
readPCNTPosition == (pcnt_overflow_count * 65536 + pcntCount) * 4

\* C integer division (truncating towards zero), b > 0.
TruncDiv(a, b) == IF a >= 0 THEN a \div b ELSE -((-a) \div b)

\* (int16_t)x
ToInt16(x) == ((x + 32768) % 65536) - 32768

\* getPosition()
getPosition == IF variant = "pcnt" THEN readPCNTPosition ELSE positionCounts

\* isrZ(), reading `level` from the index pin.
isrZ(level) == indexFlag' = (indexFlag \/ level)

\* Mutant of resetPosition: the estimator's baseline is left as it was.
ResetBaselineKept == lastSamplePos

\* What resetPosition() leaves in the estimator's baseline.
ResetBaseline == 0

\* resetPosition()
resetPosition ==
  /\ IF variant = "pcnt"
     THEN /\ pcntCount' = 0
          /\ pcnt_overflow_count' = 0
          /\ UNCHANGED positionCounts
     ELSE /\ positionCounts' = 0
          /\ UNCHANGED <<pcntCount, pcnt_overflow_count>>
  /\ lastSamplePos' = ResetBaseline

\* setPosition(newPos)
setPosition(newPos) ==
  /\ IF variant = "pcnt"
     THEN /\ pcnt_overflow_count' = ToInt16(TruncDiv(newPos, 4 * 65536))
          /\ pcntCount' = 0
          /\ UNCHANGED positionCounts
     ELSE /\ positionCounts' = newPos
          /\ UNCHANGED <<pcntCount, pcnt_overflow_count>>
  /\ lastSamplePos' = newPos

(***************************************************************************)
(* Velocity estimator                                                      *)
(***************************************************************************)
F1e6 == FInt(1000000)

\* float cpsWindow = (windowSec > 0) ? (deltaCounts / windowSec) : 0.0f
\* with windowSec = elapsed / 1e6f.
WindowSpeed(deltaCounts, elapsed) ==
  LET windowSec == FDiv(FU32(elapsed), F1e6)
  IN  IF FPos(windowSec) THEN FDiv(FInt(deltaCounts), windowSec) ELSE FZero

\* Whether the estimator treats the last accepted edge as too old.
VelocityTimedOut(currentTime) ==
  Gt32(Sub32(currentTime, lastEdgeMicros), ToU32(VELOCITY_TIMEOUT_US))

\* The signed edge-based speed of EncoderReader's estimator (0 with PCNT).
EdgeSpeed(currentTime, lastEdgeDelta, deltaSign) ==
  IF /\ variant # "pcnt"
     /\ lastEdgeDelta # U32Zero
     /\ Lt32(Sub32(currentTime, lastEdgeMicros), ToU32(VELOCITY_TIMEOUT_US))
  THEN FMul(FDiv(F1e6, FU32(lastEdgeDelta)), FInt(deltaSign))
  ELSE FZero

\* Mutant of the blend: the window speed alone, as with ADAPTIVE_BLENDING 0.
BlendWindowOnly(cpsWindow, cpsEdge) == cpsWindow

\* The adaptive blend of EncoderReader's estimator (ADAPTIVE_BLENDING 1).
Blend(cpsWindow, cpsEdge) ==
  IF variant = "pcnt" THEN cpsWindow
  ELSE LET absWindow == FAbs(cpsWindow)
           absEdge   == FAbs(cpsEdge)
       IN  IF FLt(absWindow, FInt(10)) THEN cpsWindow
           ELSE IF FGt(absWindow, FInt(1000)) /\ FPos(absEdge)
                THEN FAdd(FMul(FLit(7, 10), cpsEdge), FMul(FLit(3, 10), cpsWindow))
           ELSE IF ~FIsZero(cpsWindow) /\ ~FIsZero(cpsEdge)
                THEN FAdd(FMul(FLit(5, 10), cpsWindow), FMul(FLit(5, 10), cpsEdge))
           ELSE IF ~FIsZero(cpsWindow) THEN cpsWindow ELSE cpsEdge

\* The velocity-timeout override of the blended value (ISR build only).
ApplyTimeout(currentTime, blended) ==
  IF variant # "pcnt" /\ VelocityTimedOut(currentTime) THEN FZero ELSE blended

\* alpha * blended + (1.0f - alpha) * ema
Ema(alpha, blended, ema) ==
  FAdd(FMul(alpha, blended), FMul(FSub(FInt(1), alpha), ema))

\* getRPM()
getRPM == FMul(FDiv(emaCountsPerSec, FInt(ENC_PPR)), FInt(60))

\* updateEncoderSpeed(currentTime) of EncoderReader/encoder.cpp.
updateEncoderSpeed(currentTime) ==
  LET base    == IF lastSample = U32Zero THEN currentTime ELSE lastSample
      elapsed == Sub32(currentTime, base)
  IN  IF Ge32(elapsed, ToU32(SPEED_SAMPLE_US))
      THEN LET pos           == getPosition
               lastEdgeDelta == IF variant = "pcnt" THEN U32Zero ELSE edgeDeltaMicros
               deltaSign     == IF variant = "pcnt" THEN 1 ELSE lastDeltaSign
               deltaCounts   == pos - lastSamplePos
               cpsWindow     == WindowSpeed(deltaCounts, elapsed)
               cpsEdge       == EdgeSpeed(currentTime, lastEdgeDelta, deltaSign)
               blended       == ApplyTimeout(currentTime, Blend(cpsWindow, cpsEdge))
           IN  /\ indexFlag' = FALSE
               /\ lastSamplePos' = pos
               /\ emaCountsPerSec' = Ema(EMA_ALPHA, blended, emaCountsPerSec)
               /\ lastSample' = currentTime
               /\ op' = [name |-> "tick", ticked |-> TRUE, time |-> currentTime,
                         pos |-> pos, zSeen |-> indexFlag,
                         deltaCounts |-> deltaCounts, cpsWindow |-> cpsWindow,
                         cpsEdge |-> cpsEdge, blended |-> blended,
                         timedOut |-> VelocityTimedOut(currentTime),
                         emaBefore |-> emaCountsPerSec]
      ELSE /\ lastSample' = base
           /\ UNCHANGED <<indexFlag, lastSamplePos, emaCountsPerSec>>
           /\ op' = [name |-> "tick", ticked |-> FALSE, time |-> currentTime]

\* The fixed blend of the sketch's estimator.
SketchBlend(cpsWindow, cpsEdge) ==
  IF FPos(cpsWindow) /\ FPos(cpsEdge)
  THEN FAdd(FMul(FLit(5, 10), cpsWindow), FMul(FLit(5, 10), cpsEdge))
  ELSE IF ~FIsZero(cpsWindow) THEN cpsWindow ELSE cpsEdge

\* updateEncoderSpeed(currentTime) of ArduinoEncoderSketch/encoder.cpp; its
\* static lastSample is initialised to micros_fast() by the first call.
updateEncoderSpeedSketch(currentTime) ==
  LET base    == IF lastSampleSet THEN lastSample ELSE currentTime
      elapsed == Sub32(currentTime, base)
  IN  /\ lastSampleSet' = TRUE
      /\ IF Ge32(elapsed, ToU32(SPEED_SAMPLE_US))
         THEN LET pos         == positionCounts
                  deltaCounts == pos - lastSamplePos
                  cpsWindow   == WindowSpeed(deltaCounts, elapsed)
                  cpsEdge     == IF edgeDeltaMicros # U32Zero
                                 THEN FDiv(F1e6, FU32(edgeDeltaMicros)) ELSE FZero
                  blended     == SketchBlend(cpsWindow, cpsEdge)
              IN  /\ indexFlag' = FALSE
                  /\ lastSamplePos' = pos
                  /\ emaCountsPerSec' = Ema(EMA_ALPHA, blended, emaCountsPerSec)
                  /\ lastSample' = currentTime
                  /\ op' = [name |-> "tick", ticked |-> TRUE, time |-> currentTime,
                            pos |-> pos, zSeen |-> indexFlag,
                            deltaCounts |-> deltaCounts, cpsWindow |-> cpsWindow,
                            cpsEdge |-> cpsEdge, blended |-> blended,
                            timedOut |-> VelocityTimedOut(currentTime),
                            emaBefore |-> emaCountsPerSec]
         ELSE /\ lastSample' = base
              /\ UNCHANGED <<indexFlag, lastSamplePos, emaCountsPerSec>>
              /\ op' = [name |-> "tick", ticked |-> FALSE, time |-> currentTime]

\* One pass of loop() of src/main.cpp, reading `now` from micros_fast();
\* lastSpeedSample is held in lastSample and lastLoopPosition in lastSamplePos.
loop(now) ==
  LET base    == IF lastSampleSet THEN lastSample ELSE now
      elapsed == Sub32(now, base)
  IN  /\ lastSampleSet' = TRUE
      /\ IF Ge32(elapsed, ToU32(STANDALONE_SPEED_SAMPLE_US))
         THEN LET pos         == positionCounts
                  deltaCounts == pos - lastSamplePos
                  window      == FDiv(FInt(deltaCounts), FDiv(FU32(elapsed), F1e6))
                  cpsEdge     == IF edgeDeltaMicros # U32Zero
                                 THEN FDiv(F1e6, FU32(edgeDeltaMicros)) ELSE FZero
                  inst        == IF edgeDeltaMicros # U32Zero
                                 THEN FAdd(FMul(window, FLit(5, 10)),
                                           FMul(cpsEdge, FLit(5, 10)))
                                 ELSE window
              IN  /\ lastSamplePos' = pos
                  /\ emaCountsPerSec' = Ema(STANDALONE_EMA_ALPHA, inst, emaCountsPerSec)
                  /\ lastSample' = now
                  /\ op' = [name |-> "tick", ticked |-> TRUE, time |-> now,
                            pos |-> pos, zSeen |-> FALSE,
                            deltaCounts |-> deltaCounts, cpsWindow |-> window,
                            cpsEdge |-> cpsEdge, blended |-> inst,
                            timedOut |-> VelocityTimedOut(now),
                            emaBefore |-> emaCountsPerSec]
         ELSE /\ lastSample' = base
              /\ UNCHANGED <<lastSamplePos, emaCountsPerSec>>
              /\ op' = [name |-> "tick", ticked |-> FALSE, time |-> now]

(***************************************************************************)
(* The encoder as a state machine                                          *)
(***************************************************************************)
\* The channels of the load-cell arrays.
Cells == 0 .. NUM_LOADCELLS - 1

\* The initialisers of the load-cell state.
InitLoadCell ==
  /\ hx711ScaleCountsPerKg = [c \in Cells |-> FInt(1000)]
  /\ hx711Offset = [c \in Cells |-> 0]
  /\ hx711Tared = [c \in Cells |-> FALSE]
  /\ filteredForceKg = [c \in Cells |-> FZero]
  /\ lastHxRaw = [c \in Cells |-> 0]
  /\ lastForceUpdateUs = [c \in Cells |-> U32Zero]
  /\ hxAccum = [c \in Cells |-> 0]
  /\ hxCount = [c \in Cells |-> 0]
  /\ lastCal = [c \in Cells |-> NoCal]
  /\ lastTare = [c \in Cells |-> NoTare]
  /\ everFlushed = [c \in Cells |-> FALSE]

\* After initEncoder() / setup(): the stored phase state is what the pins
\* read, and lastEdgeMicros is the timer at that moment.
InitEncoder ==
  /\ positionCounts = 0
  /\ lastStateAB \in (IF variant \in {"isr", "sketch"} THEN 0 .. 3 ELSE {0})
  /\ lastEdgeMicros = clock
  /\ edgeDeltaMicros = U32Zero
  /\ indexFlag = FALSE
  /\ lastDeltaSign = 1
  /\ lastA = FALSE
  /\ lastB = FALSE
  /\ lastEdgeDir = 0
  /\ emaCountsPerSec = FZero
  /\ lastSamplePos = 0
  /\ lastSample = U32Zero
  /\ lastSampleSet = (variant \in {"isr", "pcnt"})
  /\ pcntCount = 0
  /\ pcnt_overflow_count = 0
  /\ op = [name |-> "init"]
  /\ lastWrite = NoWrite
  /\ pc = "idle"
  /\ intsOff = FALSE
  /\ pending = NoPending
  /\ loc = NoLocals
  /\ hist = NoHist

InitSeq ==
  /\ path = << >>
  /\ mode = "fwd"
  /\ sumDeltas = 0
  /\ allSpaced = TRUE
  /\ fwdCount = 0

\* One more encoder operation, d microseconds after the one before.
Step(d) ==
  /\ steps > 0
  /\ steps' = steps - 1
  /\ clock' = Add32(clock, ToU32(d))
  /\ UNCHANGED <<variant, cpuVars, lcVars, lcHist>>

\* isrA / isrB of the ISR build of EncoderReader.
IsrFast(d, a, b) ==
  /\ Step(d)
  /\ variant = "isr"
  /\ updateFromAB_Fast(Add32(clock, ToU32(d)), a, b)
  /\ lastWrite' = NoWrite
  /\ UNCHANGED <<lastA, lastB, lastEdgeDir, indexFlag, estVars, pcntVars, seqVars>>

\* isrA / isrB of the sketch.
IsrSketch(d, a, b) ==
  /\ Step(d)
  /\ variant = "sketch"
  /\ updateFromAB(Add32(clock, ToU32(d)), a, b)
  /\ lastWrite' = NoWrite
  /\ UNCHANGED <<lastDeltaSign, lastA, lastB, lastEdgeDir, indexFlag, estVars,
                 pcntVars, seqVars>>

\* handleQuadratureA / handleQuadratureB of the standalone reader.
IsrStandalone(d, aState, bState) ==
  /\ Step(d)
  /\ variant = "standalone"
  /\ updateQuadrature(Add32(clock, ToU32(d)), aState, bState)
  /\ lastWrite' = NoWrite
  /\ UNCHANGED <<lastStateAB, lastDeltaSign, indexFlag, estVars, pcntVars, seqVars>>

\* The index interrupt (encoder.cpp builds, USE_INDEX 1).
IsrZ(d, level) ==
  /\ Step(d)
  /\ variant \in {"isr", "pcnt", "sketch"}
  /\ isrZ(level)
  /\ op' = [name |-> "isrZ", level |-> level]
  /\ UNCHANGED <<decVars, estVars, pcntVars, lastWrite, seqVars>>

\* The pulse counter counts n pulses (n < 0: in reverse).  A burst ends at the
\* latest on the pulse that reaches a limit: the counter then returns to zero
\* and raises the limit interrupt, whose handler reads `status`.
PcntCount(d, n, status) ==
  /\ Step(d)
  /\ variant = "pcnt"
  /\ pcntCount + n >= PCNT_L_LIM
  /\ pcntCount + n <= PCNT_H_LIM
  /\ pcntCount + n \notin {PCNT_L_LIM, PCNT_H_LIM} => status = 0
  /\ IF pcntCount + n \in {PCNT_L_LIM, PCNT_H_LIM}
     THEN /\ pcntCount' = 0
          /\ pcnt_overflow_count' = pcnt_overflow_handler(status)
          /\ op' = [name |-> "pcnt", n |-> n, limit |-> TRUE, status |-> status]
     ELSE /\ pcntCount' = pcntCount + n
          /\ UNCHANGED pcnt_overflow_count
          /\ op' = [name |-> "pcnt", n |-> n, limit |-> FALSE, status |-> 0]
  /\ lastWrite' = NoWrite
  /\ UNCHANGED <<decVars, indexFlag, estVars, seqVars>>

\* The main loop calls updateEncoderSpeed(micros_fast()) (EncoderReader).
UpdateEncoderSpeed(d) ==
  /\ Step(d)
  /\ variant \in {"isr", "pcnt"}
  /\ updateEncoderSpeed(Add32(clock, ToU32(d)))
  /\ UNCHANGED <<decVars, lastSampleSet, pcntVars, lastWrite, seqVars>>

\* The main loop calls updateEncoderSpeed(micros_fast()) (sketch).
UpdateEncoderSpeedSketch(d) ==
  /\ Step(d)
  /\ variant = "sketch"
  /\ updateEncoderSpeedSketch(Add32(clock, ToU32(d)))
  /\ UNCHANGED <<decVars, pcntVars, lastWrite, seqVars>>

\* One pass of loop() (standalone reader).
Loop(d) ==
  /\ Step(d)
  /\ variant = "standalone"
  /\ loop(Add32(clock, ToU32(d)))
  /\ UNCHANGED <<decVars, indexFlag, pcntVars, lastWrite, seqVars>>

\* resetPosition() (EncoderReader).
ResetPosition(d) ==
  /\ Step(d)
  /\ variant \in {"isr", "pcnt"}
  /\ resetPosition
  /\ op' = [name |-> "reset"]
  /\ lastWrite' = [kind |-> "reset", before |-> getPosition, arg |-> 0]
  /\ UNCHANGED <<lastStateAB, lastEdgeMicros, edgeDeltaMicros, lastDeltaSign,
                 lastA, lastB, lastEdgeDir, indexFlag, emaCountsPerSec,
                 lastSample, lastSampleSet, seqVars>>

\* setPosition(newPos) (EncoderReader).
SetPosition(d, newPos) ==
  /\ Step(d)
  /\ variant \in {"isr", "pcnt"}
  /\ setPosition(newPos)
  /\ op' = [name |-> "set", arg |-> newPos]
  /\ lastWrite' = [kind |-> "set", before |-> getPosition, arg |-> newPos]
  /\ UNCHANGED <<lastStateAB, lastEdgeMicros, edgeDeltaMicros, lastDeltaSign,
                 lastA, lastB, lastEdgeDir, indexFlag, emaCountsPerSec,
                 lastSample, lastSampleSet, seqVars>>

(***************************************************************************)
(* Decoding: the three software decoders under arbitrary pin readings      *)
(***************************************************************************)
InitDecode ==
  /\ variant \in {"isr", "sketch", "standalone"}
  /\ steps = MaxDecodeSteps
  /\ clock \in StartClocks
  /\ InitEncoder
  /\ InitSeq
  /\ InitLoadCell

NextDecode ==
  \/ \E d \in DecodeDelays : \E a, b \in {0, 1} : IsrFast(d, a, b)
  \/ \E d \in DecodeDelays : \E a, b \in {0, 1} : IsrSketch(d, a, b)
  \/ \E d \in DecodeDelays : \E a, b \in BOOLEAN : IsrStandalone(d, a, b)

SpecDecode == InitDecode /\ [][NextDecode]_vars

(***************************************************************************)
(* Position: writes, motion and estimator ticks of EncoderReader           *)
(***************************************************************************)
InitPosition ==
  /\ variant \in {"isr", "pcnt"}
  /\ steps = MaxPositionSteps
  /\ clock \in StartClocks
  /\ InitEncoder
  /\ InitSeq
  /\ InitLoadCell

NextPosition ==
  \/ \E a, b \in {0, 1} : IsrFast(MIN_EDGE_INTERVAL_US, a, b)
  \/ \E n \in PulseBursts, st \in StatusWords : PcntCount(0, n, st)
  \/ \E d \in TickDelays : UpdateEncoderSpeed(d)
  \/ ResetPosition(0)
  \/ \E p \in SetPositions : SetPosition(0, p)

SpecPosition == InitPosition /\ [][NextPosition]_vars

(***************************************************************************)
(* Velocity: edges, index pulses and estimator ticks of every build        *)
(***************************************************************************)
InitVelocity ==
  /\ variant \in Variants
  /\ steps = MaxVelocitySteps
  /\ clock \in StartClocks
  /\ InitEncoder
  /\ InitSeq
  /\ InitLoadCell

NextVelocity ==
  \/ \E a, b \in {0, 1} : IsrFast(MIN_EDGE_INTERVAL_US, a, b)
  \/ \E a, b \in {0, 1} : IsrSketch(MIN_EDGE_INTERVAL_US, a, b)
  \/ \E a, b \in BOOLEAN : IsrStandalone(MIN_EDGE_INTERVAL_US, a, b)
  \/ \E n \in {1, -1} : PcntCount(0, n, 0)
  \/ \E d \in VelocityDelays : UpdateEncoderSpeed(d)
  \/ \E d \in VelocityDelays : UpdateEncoderSpeedSketch(d)
  \/ \E d \in VelocityDelays : Loop(d)

SpecVelocity == InitVelocity /\ [][NextVelocity]_vars

(***************************************************************************)
(* Sequences: single-bit transitions forwards, then the same backwards     *)
(***************************************************************************)
\* The phase states in the order a forward rotation visits them:
\* 00 -> 01 -> 11 -> 10 -> 00.
GrayIndex(ab) == CASE ab = 0 -> 0 [] ab = 1 -> 1 [] ab = 3 -> 2 [] ab = 2 -> 3

\* Exactly one of the two phase bits differs.
SingleBit(old, new) == old # new /\ old + new # 3

\* Both phase bits differ.
BothBits(old, new) == old + new = 3

\* The signed delta of a single-bit transition: +1 forwards, -1 backwards.
StepDelta(old, new) ==
  IF GrayIndex(new) = (GrayIndex(old) + 1) % 4 THEN 1 ELSE -1

\* The decoder of the build handles one edge (SpecSeq: "isr" or "sketch").
Deliver(now, new) ==
  IF variant = "isr"
  THEN /\ updateFromAB_Fast(now, new \div 2, new % 2)
       /\ UNCHANGED <<lastA, lastB, lastEdgeDir>>
  ELSE /\ updateFromAB(now, new \div 2, new % 2)
       /\ UNCHANGED <<lastDeltaSign, lastA, lastB, lastEdgeDir>>

\* The next transition of the forward sequence.
SeqForward(d, new) ==
  /\ mode = "fwd"
  /\ fwdCount < MaxSeqLen
  /\ SingleBit(lastStateAB, new)
  /\ clock' = Add32(clock, ToU32(d))
  /\ Deliver(Add32(clock, ToU32(d)), new)
  /\ path' = Append(path, lastStateAB)
  /\ sumDeltas' = sumDeltas + StepDelta(lastStateAB, new)
  /\ allSpaced' = (allSpaced /\ d >= MIN_EDGE_INTERVAL_US)
  /\ fwdCount' = fwdCount + 1
  /\ UNCHANGED <<variant, cpuVars, mode, indexFlag, estVars, pcntVars, lastWrite, steps,
                 lcVars, lcHist>>

\* The next transition of the reversed sequence: back to the state left last.
SeqReverse(d) ==
  /\ path # << >>
  /\ clock' = Add32(clock, ToU32(d))
  /\ Deliver(Add32(clock, ToU32(d)), path[Len(path)])
  /\ path' = SubSeq(path, 1, Len(path) - 1)
  /\ mode' = "rev"
  /\ sumDeltas' = sumDeltas + StepDelta(lastStateAB, path[Len(path)])
  /\ allSpaced' = (allSpaced /\ d >= MIN_EDGE_INTERVAL_US)
  /\ UNCHANGED <<variant, cpuVars, fwdCount, indexFlag, estVars, pcntVars, lastWrite, steps,
                 lcVars, lcHist>>

InitSeqSpec ==
  /\ variant \in {"isr", "sketch"}
  /\ steps = 0
  /\ clock \in StartClocks
  /\ InitEncoder
  /\ InitSeq
  /\ InitLoadCell

NextSeq ==
  \/ \E d \in SeqDelays : \E new \in 0 .. 3 : SeqForward(d, new)
  \/ \E d \in SeqDelays : SeqReverse(d)

SpecSeq == InitSeqSpec /\ [][NextSeq]_vars

(***************************************************************************)
(* Load cells (ArduinoEncoderSketch/loadcell.cpp)                          *)
(***************************************************************************)
\* The safety check at the head of every load-cell function.
InRange(cellIndex) == cellIndex < NUM_LOADCELLS

\* The 24 bits the HX711 puts on DOUT for a word, most significant first.
HX711Frame(word) == [i \in 1 .. 24 |-> (word \div 2^(24 - i)) % 2]

\* value = (value << 1) | bit, over the first i bits read.
RECURSIVE ShiftInTo(_, _)
ShiftInTo(bits, i) ==
  IF i = 0 THEN 0 ELSE ShiftInTo(bits, i - 1) * 2 + bits[i]

\* The value after all the bits are read.
ShiftIn(bits) == ShiftInTo(bits, Len(bits))

\* Sign extension of the 24-bit two's complement value, read as int32_t.
SignExtend24(value) == IF value >= 2^23 THEN value - 2^24 ELSE value

\* Mutant of the flush condition: a full batch waits for one more sample.
FlushDueLate(cellIndex, count, currentTime) ==
  \/ count > HX711_READ_SAMPLES
  \/ Gt32(Sub32(currentTime, lastForceUpdateUs[cellIndex]), ToU32(FLUSH_TIMEOUT_US))

\* Mutant of the flush condition: the timeout itself already flushes.
FlushDueAtTimeout(cellIndex, count, currentTime) ==
  \/ count >= HX711_READ_SAMPLES
  \/ Ge32(Sub32(currentTime, lastForceUpdateUs[cellIndex]), ToU32(FLUSH_TIMEOUT_US))

\* The flush condition, on the count after this call's sample.
FlushDue(cellIndex, count, currentTime) ==
  \/ count >= HX711_READ_SAMPLES
  \/ Gt32(Sub32(currentTime, lastForceUpdateUs[cellIndex]), ToU32(FLUSH_TIMEOUT_US))

\* The instantaneous force of a flush.
InstKg(diff, scale) == IF FPos(scale) THEN FDiv(FInt(diff), scale) ELSE FZero

\* Mutant of the IIR filter: the old value is not scaled down.
IirNoDecay(instKg, filtered) == FAdd(FMul(FORCE_IIR_ALPHA, instKg), filtered)

\* The IIR filter of the force.
Iir(instKg, filtered) ==
  FAdd(FMul(FORCE_IIR_ALPHA, instKg),
       FMul(FSub(FInt(1), FORCE_IIR_ALPHA), filtered))

\* updateLoadCell(cellIndex, currentTime); `ready` is DOUT read LOW, `word`
\* what the HX711 then shifts out.
updateLoadCell(cellIndex, currentTime, ready, word) ==
  IF ~InRange(cellIndex)
  THEN /\ UNCHANGED <<lcVars, lcHist>>
       /\ op' = [name |-> "updateLoadCell", cell |-> cellIndex,
                 time |-> currentTime, doutReads |-> 0, sckPulses |-> 0,
                 sampled |-> FALSE, due |-> FALSE, flushed |-> FALSE,
                 accum |-> 0, count |-> 0, first |-> FALSE,
                 avgRaw |-> 0, autoTared |-> FALSE, instKg |-> FZero,
                 prev |-> FZero, elapsed |-> U32Zero, old |-> NoChannel]
  ELSE LET signedVal == SignExtend24(ShiftIn(HX711Frame(word)))
           accum     == IF ready THEN hxAccum[cellIndex] + signedVal
                                 ELSE hxAccum[cellIndex]
           count     == IF ready THEN (hxCount[cellIndex] + 1) % 256
                                 ELSE hxCount[cellIndex]
           due       == FlushDue(cellIndex, count, currentTime)
           flushed   == due /\ count > 0
           avgRaw    == IF count > 0 THEN TruncDiv(accum, count) ELSE 0
           autoTare  == flushed /\ ~hx711Tared[cellIndex]
           offset    == IF autoTare THEN avgRaw ELSE hx711Offset[cellIndex]
           instKg    == InstKg(avgRaw - offset, hx711ScaleCountsPerKg[cellIndex])
       IN /\ IF flushed
             THEN /\ lastHxRaw' = [lastHxRaw EXCEPT ![cellIndex] = avgRaw]
                  /\ hx711Offset' = [hx711Offset EXCEPT ![cellIndex] = offset]
                  /\ hx711Tared' = [hx711Tared EXCEPT ![cellIndex] = TRUE]
                  /\ filteredForceKg' =
                       [filteredForceKg EXCEPT
                          ![cellIndex] = Iir(instKg, filteredForceKg[cellIndex])]
                  /\ lastForceUpdateUs' =
                       [lastForceUpdateUs EXCEPT ![cellIndex] = currentTime]
             ELSE UNCHANGED <<lastHxRaw, hx711Offset, hx711Tared, filteredForceKg,
                              lastForceUpdateUs>>
          /\ hxAccum' = [hxAccum EXCEPT ![cellIndex] = IF due THEN 0 ELSE accum]
          /\ hxCount' = [hxCount EXCEPT ![cellIndex] = IF due THEN 0 ELSE count]
          /\ UNCHANGED hx711ScaleCountsPerKg
          /\ lastCal' = IF autoTare THEN [lastCal EXCEPT ![cellIndex] = NoCal]
                                    ELSE lastCal
          /\ lastTare' = IF flushed /\ avgRaw # offset
                         THEN [lastTare EXCEPT ![cellIndex] = NoTare]
                         ELSE lastTare
          /\ everFlushed' = IF flushed
                            THEN [everFlushed EXCEPT ![cellIndex] = TRUE]
                            ELSE everFlushed
          /\ op' = [name |-> "updateLoadCell", cell |-> cellIndex,
                    time |-> currentTime,
                    doutReads |-> IF ready THEN 25 ELSE 1,
                    sckPulses |-> IF ready THEN 25 ELSE 0,
                    sampled |-> ready, due |-> due, flushed |-> flushed,
                    accum |-> accum, count |-> count,
                    first |-> flushed /\ ~everFlushed[cellIndex],
                    avgRaw |-> avgRaw, autoTared |-> autoTare,
                    instKg |-> IF flushed THEN instKg ELSE FZero,
                    prev |-> filteredForceKg[cellIndex],
                    elapsed |-> Sub32(currentTime, lastForceUpdateUs[cellIndex]),
                    old |-> [lastHxRaw |-> lastHxRaw[cellIndex],
                             hx711Offset |-> hx711Offset[cellIndex],
                             hx711Tared |-> hx711Tared[cellIndex],
                             lastForceUpdateUs |-> lastForceUpdateUs[cellIndex],
                             hxCount |-> hxCount[cellIndex]]]

\* Mutant of tareLoadCell: every channel is tared, not only cellIndex.
tareLoadCellAll(cellIndex) ==
  /\ IF InRange(cellIndex)
     THEN /\ hx711Offset' = lastHxRaw
          /\ hx711Tared' = [c \in Cells |-> TRUE]
          /\ lastCal' = [c \in Cells |-> NoCal]
          /\ lastTare' = [c \in Cells |-> [kind |-> "tare", raw |-> lastHxRaw[c]]]
     ELSE UNCHANGED <<hx711Offset, hx711Tared, lastCal, lastTare>>
  /\ UNCHANGED everFlushed
  /\ UNCHANGED <<hx711ScaleCountsPerKg, filteredForceKg, lastHxRaw,
                 lastForceUpdateUs, hxAccum, hxCount>>
  /\ op' = [name |-> "tareLoadCell", cell |-> cellIndex]

\* tareLoadCell(cellIndex).
tareLoadCell(cellIndex) ==
  /\ IF InRange(cellIndex)
     THEN /\ hx711Offset' = [hx711Offset EXCEPT ![cellIndex] = lastHxRaw[cellIndex]]
          /\ hx711Tared' = [hx711Tared EXCEPT ![cellIndex] = TRUE]
          /\ lastCal' = [lastCal EXCEPT ![cellIndex] = NoCal]
          /\ lastTare' = [lastTare EXCEPT
                            ![cellIndex] = [kind |-> "tare",
                                            raw |-> lastHxRaw[cellIndex]]]
     ELSE UNCHANGED <<hx711Offset, hx711Tared, lastCal, lastTare>>
  /\ UNCHANGED everFlushed
  /\ UNCHANGED <<hx711ScaleCountsPerKg, filteredForceKg, lastHxRaw,
                 lastForceUpdateUs, hxAccum, hxCount>>
  /\ op' = [name |-> "tareLoadCell", cell |-> cellIndex]

\* Mutant of the weight check: only a zero weight is rejected.
WeightAcceptedNonZero(knownWeightKg) == ~FIsZero(knownWeightKg)

\* The weight check of calibrateLoadCell.
WeightAccepted(knownWeightKg) == FPos(knownWeightKg)

\* Mutant of the calibration: the product instead of the quotient.
CalibratedScaleProduct(diff, knownWeightKg) == FMul(FInt(diff), knownWeightKg)

\* The scale a calibration stores: counts per kg.
CalibratedScale(diff, knownWeightKg) == FDiv(FInt(diff), knownWeightKg)

\* calibrateLoadCell(cellIndex, knownWeightKg).
calibrateLoadCell(cellIndex, knownWeightKg) ==
  LET accepted == InRange(cellIndex) /\ WeightAccepted(knownWeightKg)
      diff     == IF InRange(cellIndex)
                  THEN lastHxRaw[cellIndex] - hx711Offset[cellIndex] ELSE 0
  IN /\ IF accepted
        THEN /\ hx711ScaleCountsPerKg' =
                  [hx711ScaleCountsPerKg EXCEPT
                     ![cellIndex] = CalibratedScale(diff, knownWeightKg)]
             /\ lastCal' = [lastCal EXCEPT
                              ![cellIndex] = [kind |-> "cal", w |-> knownWeightKg,
                                              d |-> diff,
                                              raw |-> lastHxRaw[cellIndex]]]
        ELSE UNCHANGED <<hx711ScaleCountsPerKg, lastCal>>
     /\ UNCHANGED <<hx711Offset, hx711Tared, filteredForceKg, lastHxRaw,
                    lastForceUpdateUs, hxAccum, hxCount, lastTare, everFlushed>>
     /\ op' = [name |-> "calibrateLoadCell", cell |-> cellIndex,
               weight |-> knownWeightKg, accepted |-> accepted, diff |-> diff]

getForceKg(cellIndex) ==
  IF InRange(cellIndex) THEN filteredForceKg[cellIndex] ELSE FZero

getRawReading(cellIndex) ==
  IF InRange(cellIndex) THEN lastHxRaw[cellIndex] ELSE 0

\* Mutant of getScaleFactor: the placeholder scale for an index out of range.
getScaleFactorPlaceholder(cellIndex) ==
  IF InRange(cellIndex) THEN hx711ScaleCountsPerKg[cellIndex] ELSE FInt(1000)

getScaleFactor(cellIndex) ==
  IF InRange(cellIndex) THEN hx711ScaleCountsPerKg[cellIndex] ELSE FZero

\* One more load-cell operation, d microseconds after the one before.
LoadCellStep(d) ==
  /\ steps > 0
  /\ steps' = steps - 1
  /\ clock' = Add32(clock, ToU32(d))
  /\ UNCHANGED <<variant, cpuVars, decVars, indexFlag, estVars, pcntVars, lastWrite, seqVars>>

\* The main loop polls a channel.
UpdateLoadCell(d, cellIndex, ready, word) ==
  /\ LoadCellStep(d)
  /\ updateLoadCell(cellIndex, Add32(clock, ToU32(d)), ready, word)

\* The TARE command.
TareLoadCell(cellIndex) ==
  /\ LoadCellStep(0)
  /\ tareLoadCell(cellIndex)

\* The CAL command.
CalibrateLoadCell(cellIndex, knownWeightKg) ==
  /\ LoadCellStep(0)
  /\ calibrateLoadCell(cellIndex, knownWeightKg)

InitLoadCellSpec ==
  /\ variant = "sketch"
  /\ steps = MaxLoadCellSteps
  /\ clock \in LoadCellStartClocks
  /\ InitEncoder
  /\ lastStateAB = 0
  /\ InitSeq
  /\ InitLoadCell

NextLoadCell ==
  \/ \E d \in LoadCellDelays, c \in Cells, ready \in BOOLEAN :
       \E word \in (IF ready THEN SampleWords ELSE {0}) :
         UpdateLoadCell(d, c, ready, word)
  \/ \E c \in Cells, word \in RepollWords : UpdateLoadCell(0, c, TRUE, word)
  \/ UpdateLoadCell(0, NUM_LOADCELLS, FALSE, 0)
  \/ \E c \in CellIndices : TareLoadCell(c)
  \/ \E c \in Cells, w \in CalWeights : CalibrateLoadCell(c, w)
  \/ CalibrateLoadCell(NUM_LOADCELLS, FInt(10))

SpecLoadCell == InitLoadCellSpec /\ [][NextLoadCell]_vars

(***************************************************************************)
(* Sampling: EncoderReader's estimator called around the timer wraparound   *)
(***************************************************************************)
InitTick ==
  /\ variant \in {"isr", "pcnt"}
  /\ steps = MaxTickSteps
  /\ clock \in TickStartClocks
  /\ InitEncoder
  /\ InitSeq
  /\ InitLoadCell

NextTick ==
  \/ \E a, b \in {0, 1} : IsrFast(MIN_EDGE_INTERVAL_US, a, b)
  \/ \E n \in {1, -1} : PcntCount(0, n, 0)
  \/ \E d \in TickDelays : UpdateEncoderSpeed(d)

SpecTick == InitTick /\ [][NextTick]_vars

(***************************************************************************)
(* Sampling the HX711: updateLoadCell statement by statement                *)
(***************************************************************************)
\* Mutant of the gain-select pulse: no pulse after the data bits.
GainSelectNone(pulses) == pulses

\* digitalWrite(sck, HIGH); digitalWrite(sck, LOW) after the data bits.
GainSelect(pulses) == pulses + 1

\* What a statement of updateLoadCell leaves alone besides the load-cell
\* state and its own locals.
SampleFrame ==
  UNCHANGED <<variant, decVars, indexFlag, estVars, pcntVars, lastWrite,
              seqVars, pending, hist>>

\* A statement inside the call: the timer and the load-cell state stay.
SampleInside ==
  /\ SampleFrame
  /\ UNCHANGED <<clock, steps, op, lcVars, lcHist>>

\* The main loop calls updateLoadCell(cellIndex, micros_fast()); an index
\* out of range returns at the safety check.
SampleCall(d, cellIndex) ==
  /\ pc = "idle"
  /\ steps > 0
  /\ steps' = steps - 1
  /\ clock' = Add32(clock, ToU32(d))
  /\ SampleFrame
  /\ UNCHANGED <<op, lcVars, lcHist, intsOff>>
  /\ loc' = [routine |-> "updateLoadCell", cell |-> cellIndex,
             time |-> Add32(clock, ToU32(d)), ready |-> FALSE, frame |-> << >>,
             i |-> 0, value |-> 0, pulses |-> 0, work |-> 1,
             count |-> IF InRange(cellIndex) THEN hxCount[cellIndex] ELSE 0]
  /\ pc' = IF InRange(cellIndex) THEN "lc_dout" ELSE "lc_return"

\* if (digitalRead(dout) == LOW): `ready` is DOUT read LOW, `word` what the
\* HX711 will shift out; noInterrupts() and i = 0 when it is ready.
SampleDout(ready, word) ==
  /\ pc = "lc_dout"
  /\ loc' = [loc EXCEPT !.ready = ready,
                        !.frame = IF ready THEN HX711Frame(word) ELSE << >>,
                        !.work = @ + 1]
  /\ intsOff' = ready
  /\ pc' = IF ready THEN "lc_loop" ELSE "lc_flush"
  /\ SampleInside

\* One pass of the for loop: SCK high, one bit shifted in, SCK low, ++i.
SampleBit ==
  /\ pc = "lc_loop"
  /\ loc.i < 24
  /\ loc' = [loc EXCEPT !.value = loc.value * 2 + loc.frame[loc.i + 1],
                        !.i = @ + 1, !.pulses = @ + 1, !.work = @ + 1]
  /\ UNCHANGED <<pc, intsOff>>
  /\ SampleInside

\* The loop is over: the gain-select pulse, interrupts().
SampleGain ==
  /\ pc = "lc_loop"
  /\ ~(loc.i < 24)
  /\ loc' = [loc EXCEPT !.pulses = GainSelect(loc.pulses), !.work = @ + 1]
  /\ intsOff' = FALSE
  /\ pc' = "lc_flush"
  /\ SampleInside

\* Sign extension and accumulation of the value shifted in, then the flush
\* check and the flush, and the return.
SampleFlush ==
  /\ pc = "lc_flush"
  /\ updateLoadCell(loc.cell, loc.time, loc.ready, loc.value)
  /\ loc' = [loc EXCEPT !.routine = "returned", !.work = @ + 1]
  /\ pc' = "idle"
  /\ SampleFrame
  /\ UNCHANGED <<clock, steps, intsOff>>

\* The return at the safety check.
SampleReturn ==
  /\ pc = "lc_return"
  /\ updateLoadCell(loc.cell, loc.time, FALSE, 0)
  /\ loc' = [loc EXCEPT !.routine = "returned"]
  /\ pc' = "idle"
  /\ SampleFrame
  /\ UNCHANGED <<clock, steps, intsOff>>

InitSample ==
  /\ variant = "sketch"
  /\ steps = MaxSampleCalls
  /\ clock \in LoadCellStartClocks
  /\ InitEncoder
  /\ lastStateAB = 0
  /\ InitSeq
  /\ InitLoadCell

\* A statement of the call in progress.
SampleStep ==
  \/ \E ready \in BOOLEAN :
       \E word \in (IF ready THEN SampleWords ELSE {0}) : SampleDout(ready, word)
  \/ SampleBit
  \/ SampleGain
  \/ SampleFlush
  \/ SampleReturn

NextSample ==
  \/ \E d \in SampleDelays, c \in CellIndices : SampleCall(d, c)
  \/ SampleStep

\* WF_vars(SampleStep), with the enabling condition written out: a call in
\* progress always has a next statement, and the processor executes it.
SampleFair == []<>(pc = "idle") \/ []<><<SampleStep>>_vars

SpecSample == InitSample /\ [][NextSample]_vars /\ SampleFair

(***************************************************************************)
(* Blending: the speeds of one tick of EncoderReader's estimator            *)
(***************************************************************************)
\* The speeds of a tick whose window of `elapsed` microseconds saw the
\* position change by deltaCounts, the last accepted edge being recent and
\* lastEdgeDelta microseconds after the one before.
BlendTick(deltaCounts, elapsed, lastEdgeDelta, deltaSign) ==
  LET cpsWindow == WindowSpeed(deltaCounts, ToU32(elapsed))
      cpsEdge   == IF lastEdgeDelta > 0
                   THEN FMul(FDiv(F1e6, FU32(ToU32(lastEdgeDelta))), FInt(deltaSign))
                   ELSE FZero
  IN /\ op' = [name |-> "blend", cpsWindow |-> cpsWindow, cpsEdge |-> cpsEdge,
               blended |-> Blend(cpsWindow, cpsEdge)]
     /\ UNCHANGED <<variant, clock, decVars, indexFlag, estVars, pcntVars,
                    lastWrite, steps, seqVars, lcVars, lcHist, cpuVars>>

InitBlend ==
  /\ variant \in {"isr", "pcnt"}
  /\ steps = 0
  /\ clock = U32Zero
  /\ InitEncoder
  /\ lastStateAB = 0
  /\ InitSeq
  /\ InitLoadCell

NextBlend ==
  \E deltaCounts \in BlendCounts, elapsed \in BlendWindows :
    \E lastEdgeDelta \in (IF variant = "pcnt" THEN {0} ELSE BlendEdgeDeltas) :
      \E deltaSign \in (IF variant = "pcnt" THEN {1} ELSE {1, -1}) :
        BlendTick(deltaCounts, elapsed, lastEdgeDelta, deltaSign)

SpecBlend == InitBlend /\ [][NextBlend]_vars

(***************************************************************************)
(* Oversampling: one channel is polled often enough to fill a batch          *)
(***************************************************************************)
\* The main loop polls channel c, d microseconds after the poll before.
FlushPoll(d, c, ready, word) ==
  /\ LoadCellStep(d)
  /\ updateLoadCell(c, Add32(clock, ToU32(d)), ready, word)

InitFlush ==
  /\ variant = "sketch"
  /\ steps = MaxFlushPolls
  /\ clock \in FlushStartClocks
  /\ InitEncoder
  /\ lastStateAB = 0
  /\ InitSeq
  /\ InitLoadCell

NextFlush ==
  \E d \in FlushDelays, ready \in BOOLEAN :
    \E word \in (IF ready THEN FlushWords ELSE {0}) :
      FlushPoll(d, 0, ready, word)

SpecFlush == InitFlush /\ [][NextFlush]_vars

(* Settling after a tare: a channel is loaded, tared, and then polled at    *)
(* the tared reading until a flush no longer changes its filtered force     *)
(***************************************************************************)
\* The 24-bit word the HX711 shifts out for a raw reading.
WordOf(raw) == raw % 2^24

\* The smallest normal float, 2^-126.
SettleBound == [s |-> 0, m |-> 2^23, e |-> FMinExp]

\* The smallest positive float, 2^-149.
SmallestFloat == [s |-> 0, m |-> 1, e |-> FMinExp]

NoneTared == \A j \in Cells : lastTare[j].kind = "none"

\* The last call was a flush of channel c that left its filtered force as
\* it was.
Settled(c) ==
  /\ op.name = "updateLoadCell" /\ op.cell = c /\ op.flushed
  /\ op.prev = filteredForceKg[c]

\* A poll, one flush timeout after the last, that samples and flushes.
SettleLoad(c, word) ==
  /\ NoneTared
  /\ LoadCellStep(FLUSH_TIMEOUT_US + 1)
  /\ updateLoadCell(c, Add32(clock, ToU32(FLUSH_TIMEOUT_US + 1)), TRUE, word)

\* The TARE command.
SettleTare(c) ==
  /\ NoneTared
  /\ tareLoadCell(c)
  /\ UNCHANGED <<variant, cpuVars, clock, decVars, indexFlag, estVars, pcntVars,
                 lastWrite, seqVars, steps>>

\* A poll of a tared channel that finds the reading it was tared at and
\* flushes it.
SettleFlush(c) ==
  /\ lastTare[c].kind = "tare"
  /\ ~Settled(c)
  /\ clock' = Add32(clock, ToU32(FLUSH_TIMEOUT_US + 1))
  /\ updateLoadCell(c, Add32(clock, ToU32(FLUSH_TIMEOUT_US + 1)), TRUE,
                    WordOf(hx711Offset[c]))
  /\ UNCHANGED <<variant, cpuVars, decVars, indexFlag, estVars, pcntVars, lastWrite,
                 seqVars, steps>>

InitSettle ==
  /\ variant = "sketch"
  /\ steps = MaxSettleLoads
  /\ clock \in LoadCellStartClocks
  /\ InitEncoder
  /\ lastStateAB = 0
  /\ InitSeq
  /\ InitLoadCell

NextSettle ==
  \/ \E c \in Cells, word \in SampleWords : SettleLoad(c, word)
  \/ \E c \in Cells : SettleTare(c)
  \/ \E c \in Cells : SettleFlush(c)

\* The state predicate ENABLED <<SettleFlush(c)>>_vars: the guard of the
\* action, whose step always advances the clock.
SettleFlushEnabled(c) == lastTare[c].kind = "tare" /\ ~Settled(c)

\* WF_vars(SettleFlush(c)), with the enabling condition written out.
SettleFair(c) ==
  []<>(~SettleFlushEnabled(c)) \/ []<><<SettleFlush(c)>>_vars

\* The main loop polls every channel for ever, and the HX711 keeps converting.
SpecSettle ==
  InitSettle /\ [][NextSettle]_vars /\ \A c \in Cells : SettleFair(c)

(***************************************************************************)
(* The main loop and the interrupt handlers of EncoderReader, statement by  *)
(* statement: a handler runs between two statements of the main loop unless *)
(* interrupts are off, and then as soon as they are on again                *)
(***************************************************************************)
\* Mutant of Masked: noInterrupts() holds no handler off.
MaskedNever == FALSE

\* Whether handlers are held off (between noInterrupts() and interrupts()).
Masked == intsOff

\* The main loop may execute its next statement: a handler that is due and
\* not held off runs first.
MainRuns == Masked \/ pending = NoPending

\* One more event, d microseconds after the one before.
PreemptStep(d) ==
  /\ steps > 0
  /\ steps' = steps - 1
  /\ clock' = Add32(clock, ToU32(d))
  /\ UNCHANGED <<variant, lcVars, lcHist, seqVars, lastWrite>>

\* A statement or a deferred handler: no time passes.
NoStep == UNCHANGED <<variant, clock, steps, lcVars, lcHist, seqVars, lastWrite>>

\* The positions held during the getPosition() call in progress, `pos` added.
Held(pos) ==
  IF loc.routine = "getPosition" THEN hist.held \cup {pos} ELSE hist.held

\* The locals of updateEncoderSpeed(currentTime) at its critical section; with
\* the pulse counter lastEdgeDelta and deltaSign are the constants 0 and 1.
TickLocals(currentTime) ==
  [routine |-> "updateEncoderSpeed", time |-> currentTime, count |-> 0,
   pos |-> 0, lastEdgeDelta |-> U32Zero, deltaSign |-> 1, zSeen |-> FALSE,
   cpsEdge |-> FZero, zWas |-> FALSE, zLate |-> FALSE,
   edgeAtCopy |-> lastEdgeMicros, edgeAt233 |-> lastEdgeMicros,
   since |-> 0, fresh |-> FALSE, race |-> FALSE]

\* The last line of readPCNTPosition(), `count` being the register it read.
CombinePCNT(count) == (pcnt_overflow_count * 65536 + count) * 4

\* The history after isrA / isrB ran as `isr` records: the delta of an
\* accepted edge is added to the deltas accepted since the last write of the
\* position, and an edge accepted between interrupts() and the store of the
\* baseline is noted.
Accepted(held, isr) ==
  [hist EXCEPT !.held = held,
               !.since = IF isr.accept THEN @ + TableDelta(isr.old, isr.new)
                                       ELSE @,
               !.race = @ \/ (isr.accept /\ pc = "w_base")]

\* An edge on A or B raises the GPIO interrupt: isrA / isrB run, or stay
\* pending while interrupts are off.
EdgeIrq(d, a, b) ==
  /\ variant = "isr"
  /\ Masked \/ pending = NoPending
  /\ PreemptStep(d)
  /\ IF Masked
     THEN /\ pending' = [pending EXCEPT !.ab = TRUE]
          /\ op' = [name |-> "masked", irq |-> "ab"]
          /\ UNCHANGED <<positionCounts, lastStateAB, lastEdgeMicros,
                         edgeDeltaMicros, lastDeltaSign, hist>>
     ELSE /\ updateFromAB_Fast(Add32(clock, ToU32(d)), a, b)
          /\ hist' = Accepted(Held(positionCounts'), op')
          /\ UNCHANGED pending
  /\ UNCHANGED <<lastA, lastB, lastEdgeDir, indexFlag, estVars, pcntVars, pc,
                 intsOff, loc>>

\* isrA / isrB run once interrupts are on again, and read the pins then.
ServeEdge(a, b) ==
  /\ ~Masked
  /\ pending.ab
  /\ NoStep
  /\ updateFromAB_Fast(clock, a, b)
  /\ pending' = [pending EXCEPT !.ab = FALSE]
  /\ hist' = Accepted(Held(positionCounts'), op')
  /\ UNCHANGED <<lastA, lastB, lastEdgeDir, indexFlag, estVars, pcntVars, pc,
                 intsOff, loc>>

\* A rising edge on Z raises the GPIO interrupt: isrZ runs and reads `level`
\* from the pin, or stays pending while interrupts are off.
IndexIrq(d, level) ==
  /\ Masked \/ pending = NoPending
  /\ PreemptStep(d)
  /\ IF Masked
     THEN /\ pending' = [pending EXCEPT !.z = TRUE]
          /\ op' = [name |-> "masked", irq |-> "z"]
          /\ UNCHANGED <<indexFlag, hist>>
     ELSE /\ isrZ(level)
          /\ hist' = [hist EXCEPT !.zSince = @ \/ level]
          /\ op' = [name |-> "isrZ", level |-> level]
          /\ UNCHANGED pending
  /\ UNCHANGED <<decVars, estVars, pcntVars, pc, intsOff, loc>>

\* isrZ runs once interrupts are on again, and reads the pin then.
ServeIndex(level) ==
  /\ ~Masked
  /\ pending.z
  /\ NoStep
  /\ isrZ(level)
  /\ pending' = [pending EXCEPT !.z = FALSE]
  /\ hist' = [hist EXCEPT !.zSince = @ \/ level, !.zLate = @ \/ level]
  /\ op' = [name |-> "isrZ", level |-> level]
  /\ UNCHANGED <<decVars, estVars, pcntVars, pc, intsOff, loc>>

\* The pulse counter counts n pulses, whatever the processor does (one pulse
\* at most between two statements of a routine).  On the pulse that reaches a
\* limit the counter returns to zero and raises the limit
\* interrupt: pcnt_overflow_handler runs and reads `status`, or stays pending
\* while interrupts are off.
PcntPulse(d, n, status) ==
  /\ variant = "pcnt"
  /\ Masked \/ pending = NoPending
  /\ PreemptStep(d)
  /\ pc # "idle" => n = 1
  /\ pcntCount + n >= PCNT_L_LIM
  /\ pcntCount + n <= PCNT_H_LIM
  /\ LET limit == pcntCount + n \in {PCNT_L_LIM, PCNT_H_LIM}
     IN  /\ (~limit \/ Masked) => status = 0
         /\ pcntCount' = IF limit THEN 0 ELSE pcntCount + n
         /\ pcnt_overflow_count' = IF limit /\ ~Masked
                                   THEN pcnt_overflow_handler(status)
                                   ELSE pcnt_overflow_count
         /\ pending' = IF limit /\ Masked THEN [pending EXCEPT !.pcnt = TRUE]
                                          ELSE pending
         /\ hist' = [hist EXCEPT !.held = Held(readPCNTPosition')]
         /\ op' = [name |-> "pcnt", n |-> n, limit |-> limit, status |-> status]
  /\ UNCHANGED <<decVars, indexFlag, estVars, pc, intsOff, loc>>

\* pcnt_overflow_handler runs once interrupts are on again.
ServePcnt(status) ==
  /\ ~Masked
  /\ pending.pcnt
  /\ NoStep
  /\ pcnt_overflow_count' = pcnt_overflow_handler(status)
  /\ pending' = [pending EXCEPT !.pcnt = FALSE]
  /\ hist' = [hist EXCEPT !.held = Held(readPCNTPosition')]
  /\ op' = [name |-> "pcnt_overflow_handler", status |-> status]
  /\ UNCHANGED <<decVars, pcntCount, indexFlag, estVars, pc, intsOff, loc>>

\* The main loop calls getPosition(): noInterrupts() in the ISR build.
GetPositionCall(d) ==
  /\ pc = "idle"
  /\ MainRuns
  /\ PreemptStep(d)
  /\ loc' = [routine |-> "getPosition", count |-> 0, pos |-> 0]
  /\ hist' = [hist EXCEPT !.held = {getPosition}]
  /\ IF variant = "pcnt"
     THEN pc' = "gp_reg" /\ UNCHANGED intsOff
     ELSE pc' = "gp_pos" /\ intsOff' = TRUE
  /\ op' = [name |-> "call", routine |-> "getPosition"]
  /\ UNCHANGED <<decVars, indexFlag, estVars, pcntVars, pending>>

\* pos = positionCounts
GetPositionRead ==
  /\ pc = "gp_pos"
  /\ MainRuns
  /\ NoStep
  /\ loc' = [loc EXCEPT !.pos = positionCounts]
  /\ pc' = "gp_on"
  /\ UNCHANGED <<decVars, indexFlag, estVars, pcntVars, pending, intsOff, hist, op>>

\* interrupts(); return pos
GetPositionReturn ==
  /\ pc = "gp_on"
  /\ MainRuns
  /\ NoStep
  /\ intsOff' = FALSE
  /\ pc' = "idle"
  /\ op' = [name |-> "getPosition", ret |-> loc.pos, held |-> hist.held]
  /\ loc' = NoLocals
  /\ hist' = [hist EXCEPT !.held = {}]
  /\ UNCHANGED <<decVars, indexFlag, estVars, pcntVars, pending>>

\* pcnt_get_counter_value(pcnt_unit, &count) of readPCNTPosition().
GetPositionRegister ==
  /\ pc = "gp_reg"
  /\ MainRuns
  /\ NoStep
  /\ loc' = [loc EXCEPT !.count = pcntCount]
  /\ pc' = "gp_ov"
  /\ UNCHANGED <<decVars, indexFlag, estVars, pcntVars, pending, intsOff, hist, op>>

\* return ((int64_t)pcnt_overflow_count * 65536LL + count) * 4
GetPositionCombine ==
  /\ pc = "gp_ov"
  /\ MainRuns
  /\ NoStep
  /\ pc' = "idle"
  /\ op' = [name |-> "getPosition", ret |-> CombinePCNT(loc.count),
            held |-> hist.held]
  /\ loc' = NoLocals
  /\ hist' = [hist EXCEPT !.held = {}]
  /\ UNCHANGED <<decVars, indexFlag, estVars, pcntVars, pending, intsOff>>

\* The main loop calls updateEncoderSpeed(micros_fast()): up to noInterrupts().
UpdateEncoderSpeedCall(d) ==
  /\ pc = "idle"
  /\ MainRuns
  /\ PreemptStep(d)
  /\ LET now  == Add32(clock, ToU32(d))
         base == IF lastSample = U32Zero THEN now ELSE lastSample
     IN  /\ lastSample' = base
         /\ IF Ge32(Sub32(now, base), ToU32(SPEED_SAMPLE_US))
            THEN /\ intsOff' = TRUE
                 /\ pc' = IF variant = "pcnt" THEN "t_reg" ELSE "t_pos"
                 /\ loc' = TickLocals(now)
                 /\ op' = [name |-> "call", routine |-> "updateEncoderSpeed"]
            ELSE /\ UNCHANGED <<intsOff, pc, loc>>
                 /\ op' = [name |-> "tick", ticked |-> FALSE, time |-> now]
  /\ UNCHANGED <<decVars, indexFlag, emaCountsPerSec, lastSamplePos,
                 lastSampleSet, pcntVars, pending, hist>>

\* pos = positionCounts, the first copy of the critical section.
TickPosition ==
  /\ pc = "t_pos"
  /\ MainRuns
  /\ NoStep
  /\ loc' = [loc EXCEPT !.pos = positionCounts, !.edgeAtCopy = lastEdgeMicros,
                        !.edgeAt233 = lastEdgeMicros, !.since = hist.since,
                        !.fresh = hist.fresh, !.race = hist.race]
  /\ hist' = [hist EXCEPT !.fresh = FALSE]
  /\ pc' = "t_delta"
  /\ UNCHANGED <<decVars, indexFlag, estVars, pcntVars, pending, intsOff, op>>

\* pos = readPCNTPosition(): the register is read.
TickRegister ==
  /\ pc = "t_reg"
  /\ MainRuns
  /\ NoStep
  /\ loc' = [loc EXCEPT !.count = pcntCount]
  /\ pc' = "t_ov"
  /\ UNCHANGED <<decVars, indexFlag, estVars, pcntVars, pending, intsOff, hist, op>>

\* pos = readPCNTPosition(): the overflow count is read and combined.
TickCombine ==
  /\ pc = "t_ov"
  /\ MainRuns
  /\ NoStep
  /\ loc' = [loc EXCEPT !.pos = CombinePCNT(loc.count)]
  /\ pc' = "t_z"
  /\ UNCHANGED <<decVars, indexFlag, estVars, pcntVars, pending, intsOff, hist, op>>

\* lastEdgeDelta = edgeDeltaMicros; deltaSign = lastDeltaSign
TickEdgeDelta ==
  /\ pc = "t_delta"
  /\ MainRuns
  /\ NoStep
  /\ loc' = [loc EXCEPT !.lastEdgeDelta = edgeDeltaMicros,
                        !.deltaSign = lastDeltaSign]
  /\ pc' = "t_z"
  /\ UNCHANGED <<decVars, indexFlag, estVars, pcntVars, pending, intsOff, hist, op>>

\* zSeen = indexFlag
TickIndexRead ==
  /\ pc = "t_z"
  /\ MainRuns
  /\ NoStep
  /\ loc' = [loc EXCEPT !.zSeen = indexFlag, !.zWas = hist.zSince,
                        !.zLate = hist.zLate]
  /\ hist' = [hist EXCEPT !.zSince = FALSE, !.zLate = FALSE]
  /\ pc' = "t_clear"
  /\ UNCHANGED <<decVars, indexFlag, estVars, pcntVars, pending, intsOff, op>>

\* indexFlag = false
TickIndexClear ==
  /\ pc = "t_clear"
  /\ MainRuns
  /\ NoStep
  /\ indexFlag' = FALSE
  /\ pc' = "t_on"
  /\ UNCHANGED <<decVars, estVars, pcntVars, pending, intsOff, loc, hist, op>>

\* interrupts()
TickInterruptsOn ==
  /\ pc = "t_on"
  /\ MainRuns
  /\ NoStep
  /\ intsOff' = FALSE
  /\ pc' = IF variant = "pcnt" THEN "t_done" ELSE "t_edge"
  /\ UNCHANGED <<decVars, indexFlag, estVars, pcntVars, pending, loc, hist, op>>

\* The edge speed, which reads lastEdgeMicros.
TickEdgeSpeed ==
  /\ pc = "t_edge"
  /\ MainRuns
  /\ NoStep
  /\ loc' = [loc EXCEPT !.cpsEdge = EdgeSpeed(loc.time, loc.lastEdgeDelta,
                                              loc.deltaSign),
                        !.edgeAt233 = lastEdgeMicros]
  /\ pc' = "t_done"
  /\ UNCHANGED <<decVars, indexFlag, estVars, pcntVars, pending, intsOff, hist, op>>

\* The blend, the velocity timeout, which reads lastEdgeMicros again, and the
\* filter.
TickFilter ==
  /\ pc = "t_done"
  /\ MainRuns
  /\ NoStep
  /\ LET elapsed     == Sub32(loc.time, lastSample)
         deltaCounts == loc.pos - lastSamplePos
         cpsWindow   == WindowSpeed(deltaCounts, elapsed)
         blended     == ApplyTimeout(loc.time, Blend(cpsWindow, loc.cpsEdge))
     IN  /\ lastSamplePos' = loc.pos
         /\ emaCountsPerSec' = Ema(EMA_ALPHA, blended, emaCountsPerSec)
         /\ lastSample' = loc.time
         /\ op' = [name |-> "tick", ticked |-> TRUE, time |-> loc.time,
                   pos |-> loc.pos, zSeen |-> loc.zSeen,
                   deltaCounts |-> deltaCounts, cpsWindow |-> cpsWindow,
                   cpsEdge |-> loc.cpsEdge, blended |-> blended,
                   timedOut |-> VelocityTimedOut(loc.time),
                   emaBefore |-> emaCountsPerSec,
                   zWas |-> loc.zWas, zLate |-> loc.zLate,
                   edgeAtCopy |-> loc.edgeAtCopy, edgeAt233 |-> loc.edgeAt233,
                   edgeAt262 |-> IF variant = "pcnt" THEN loc.edgeAtCopy
                                                     ELSE lastEdgeMicros,
                   now |-> clock, since |-> loc.since, fresh |-> loc.fresh,
                   race |-> loc.race]
  /\ pc' = "idle"
  /\ loc' = NoLocals
  /\ UNCHANGED <<decVars, indexFlag, lastSampleSet, pcntVars, pending, intsOff,
                 hist>>

\* The main loop calls resetPosition() or setPosition(newPos) of the ISR
\* build: noInterrupts().
WriteCall(d, routine, newPos) ==
  /\ variant = "isr"
  /\ pc = "idle"
  /\ MainRuns
  /\ PreemptStep(d)
  /\ loc' = [routine |-> routine, newPos |-> newPos]
  /\ intsOff' = TRUE
  /\ pc' = "w_pos"
  /\ op' = [name |-> "call", routine |-> routine]
  /\ UNCHANGED <<decVars, indexFlag, estVars, pcntVars, pending, hist>>

\* positionCounts = 0 / positionCounts = newPos
WriteCounts ==
  /\ pc = "w_pos"
  /\ MainRuns
  /\ NoStep
  /\ positionCounts' = loc.newPos
  /\ hist' = [hist EXCEPT !.wrote = TRUE, !.written = loc.newPos, !.since = 0,
                          !.fresh = TRUE, !.race = FALSE]
  /\ pc' = "w_on"
  /\ UNCHANGED <<lastStateAB, lastEdgeMicros, edgeDeltaMicros, lastDeltaSign,
                 lastA, lastB, lastEdgeDir, indexFlag, estVars, pcntVars,
                 pending, intsOff, loc, op>>

\* interrupts()
WriteInterruptsOn ==
  /\ pc = "w_on"
  /\ MainRuns
  /\ NoStep
  /\ intsOff' = FALSE
  /\ pc' = "w_base"
  /\ UNCHANGED <<decVars, indexFlag, estVars, pcntVars, pending, loc, hist, op>>

\* lastSamplePos = 0 / lastSamplePos = newPos, and the return.
WriteBaseline ==
  /\ pc = "w_base"
  /\ MainRuns
  /\ NoStep
  /\ lastSamplePos' = IF loc.routine = "resetPosition" THEN ResetBaseline
                                                       ELSE loc.newPos
  /\ pc' = "idle"
  /\ op' = [name |-> "write", routine |-> loc.routine, arg |-> loc.newPos]
  /\ loc' = NoLocals
  /\ UNCHANGED <<decVars, indexFlag, emaCountsPerSec, lastSample, lastSampleSet,
                 pcntVars, pending, intsOff, hist>>

InitWrite ==
  /\ variant = "isr"
  /\ steps = MaxWriteSteps
  /\ clock \in PreemptStartClocks
  /\ InitEncoder
  /\ lastStateAB = 0
  /\ InitSeq
  /\ InitLoadCell

NextWrite ==
  \/ \E d \in PreemptIrqDelays, a \in 0 .. 1, b \in 0 .. 1 : EdgeIrq(d, a, b)
  \/ \E a \in 0 .. 1, b \in 0 .. 1 : ServeEdge(a, b)
  \/ \E d \in PreemptIrqDelays : WriteCall(d, "resetPosition", 0)
  \/ \E d \in PreemptIrqDelays, newPos \in WritePositions :
       WriteCall(d, "setPosition", newPos)
  \/ WriteCounts
  \/ WriteInterruptsOn
  \/ WriteBaseline
  \/ \E d \in PreemptCallDelays : UpdateEncoderSpeedCall(d)
  \/ TickPosition
  \/ TickEdgeDelta
  \/ TickIndexRead
  \/ TickIndexClear
  \/ TickInterruptsOn
  \/ TickEdgeSpeed
  \/ TickFilter

SpecWrite == InitWrite /\ [][NextWrite]_vars

InitPreempt ==
  /\ variant \in {"isr", "pcnt"}
  /\ steps = MaxPreemptSteps
  /\ clock \in PreemptStartClocks
  /\ InitEncoder
  /\ lastStateAB = 0
  /\ InitSeq
  /\ InitLoadCell

NextPreempt ==
  \/ \E d \in PreemptIrqDelays, a \in 0 .. 1, b \in 0 .. 1 : EdgeIrq(d, a, b)
  \/ \E a \in 0 .. 1, b \in 0 .. 1 : ServeEdge(a, b)
  \/ \E d \in PreemptIrqDelays, level \in BOOLEAN : IndexIrq(d, level)
  \/ \E level \in BOOLEAN : ServeIndex(level)
  \/ \E d \in PreemptIrqDelays, n \in PreemptBursts, status \in PreemptStatus :
       PcntPulse(d, n, status)
  \/ \E status \in PreemptStatus : ServePcnt(status)
  \/ \E d \in PreemptCallDelays : GetPositionCall(d)
  \/ GetPositionRead
  \/ GetPositionReturn
  \/ GetPositionRegister
  \/ GetPositionCombine
  \/ \E d \in PreemptCallDelays : UpdateEncoderSpeedCall(d)
  \/ TickPosition
  \/ TickRegister
  \/ TickCombine
  \/ TickEdgeDelta
  \/ TickIndexRead
  \/ TickIndexClear
  \/ TickInterruptsOn
  \/ TickEdgeSpeed
  \/ TickFilter

SpecPreempt == InitPreempt /\ [][NextPreempt]_vars

(***************************************************************************)
(* Claims: decoding                                                        *)
(***************************************************************************)
\* C1 (as claimed): in every software decode handler, an invocation whose
\* newly read (A,B) state differs from the stored state in both bits, or in
\* none, leaves the position counter unchanged.
C1_InvalidTransitionKeepsPosition ==
  [][(op'.name = "isr" /\ (BothBits(op'.old, op'.new) \/ op'.old = op'.new))
       => positionCounts' = positionCounts]_vars

\* C2 (as claimed): after any sequence of single-bit transitions, whatever
\* the edges' timestamps, the position has changed by the sum of the
\* transitions' deltas, and once the reversed sequence has been delivered too
\* the position is back at its starting value (0).
C2_SumAndReversal ==
  /\ positionCounts = sumDeltas
  /\ (mode = "rev" /\ path = << >>) => positionCounts = 0

\* C2 (amended): the same, for updateFromAB with any timestamps and for
\* updateFromAB_Fast when every edge comes at least MIN_EDGE_INTERVAL_US
\* after the edge before it.
C2_SumAndReversalSpaced ==
  (variant = "sketch" \/ allSpaced) => C2_SumAndReversal

\* C2 witness: updateFromAB_Fast has taken a spaced sequence of at least two
\* transitions forwards and all the way back.
C2_Witness ==
  /\ variant = "isr"
  /\ allSpaced
  /\ fwdCount >= 2
  /\ mode = "rev"
  /\ path = << >>
  /\ sumDeltas = 0

\* C3: in updateFromAB_Fast a valid single-bit edge less than
\* MIN_EDGE_INTERVAL_US (modulo 2^32) after the last accepted edge changes
\* none of positionCounts, edgeDeltaMicros, lastEdgeMicros and lastDeltaSign;
\* in particular a rejected edge does not move the reference timestamp.
C3_GlitchEdgeDropped ==
  [][(/\ variant = "isr"
      /\ op'.name = "isr"
      /\ SingleBit(op'.old, op'.new)
      /\ Lt32(Sub32(op'.now, lastEdgeMicros), ToU32(MIN_EDGE_INTERVAL_US)))
       => UNCHANGED <<positionCounts, edgeDeltaMicros, lastEdgeMicros,
                      lastDeltaSign>>]_vars

\* C3 witness: a valid edge has just been rejected after the timer wrapped
\* past the last accepted edge's timestamp, which is still the reference.
C3_Witness ==
  /\ variant = "isr"
  /\ op.name = "isr"
  /\ SingleBit(op.old, op.new)
  /\ ~op.accept
  /\ Lt32(op.now, lastEdgeMicros)
  /\ lastEdgeMicros # op.now

(***************************************************************************)
(* Claims: position writes and the estimator                               *)
(***************************************************************************)
\* The last operation was an estimator call that performed a tick.
Ticked == op.name = "tick" /\ op.ticked

\* C4: in both builds of EncoderReader, after resetPosition() and with no
\* encoder motion since, getPosition() is 0 and the estimator's baseline
\* lastSamplePos is 0, and an estimator tick computes a position delta of 0
\* and a window speed of 0.
C4_ResetZeroesPositionAndBaseline ==
  lastWrite.kind = "reset" =>
    /\ getPosition = 0
    /\ lastSamplePos = 0
    /\ Ticked => (op.pos = 0 /\ op.deltaCounts = 0 /\ op.cpsWindow = FZero)

\* C4 witness: a tick has run after a resetPosition() that found the position
\* nonzero, with no motion in between.
C4_Witness ==
  /\ lastWrite.kind = "reset"
  /\ lastWrite.before # 0
  /\ Ticked

\* C5 (as claimed): in both builds of EncoderReader, after setPosition(p) and
\* with no encoder motion since, the position the next estimator tick reads
\* equals the baseline lastSamplePos, so the tick's window speed is 0.
C5_SetPositionMatchesBaseline ==
  lastWrite.kind = "set" =>
    /\ getPosition = lastSamplePos
    /\ Ticked => (op.deltaCounts = 0 /\ op.cpsWindow = FZero)

\* C6 (as claimed): in the builds that decode edges in software, when no edge
\* has been accepted for longer than VELOCITY_TIMEOUT_US, getRPM() is 0 after
\* the next estimator tick, whatever the smoothed speed was before.
C6_TimeoutZeroesRPM ==
  (variant # "pcnt" /\ Ticked /\ op.timedOut) => FIsZero(getRPM)

\* C6, the sketch and the standalone reader with no motion in the window: a
\* timed-out tick that saw the position unchanged leaves getRPM() at 0.
C6_TimeoutZeroesRPMAtRest ==
  (variant \in {"sketch", "standalone"} /\ Ticked /\ op.timedOut
   /\ op.deltaCounts = 0) => FIsZero(getRPM)

\* C6, what the ISR build of EncoderReader does: a timed-out tick forces the
\* blended value to 0, so emaCountsPerSec becomes (1 - EMA_ALPHA) times its
\* previous value: getRPM() is 0 only if the smoothed speed was already 0,
\* and otherwise it has shrunk in magnitude and is still nonzero.
C6_TimeoutDecaysRPM ==
  (variant = "isr" /\ Ticked /\ op.timedOut) =>
    /\ op.blended = FZero
    /\ emaCountsPerSec = FMul(FSub(FInt(1), EMA_ALPHA), op.emaBefore)
    /\ FIsZero(getRPM) <=> FIsZero(op.emaBefore)
    /\ ~FIsZero(op.emaBefore) => FMagLt(emaCountsPerSec, op.emaBefore)

\* A timed-out tick of the ISR build that found a nonzero smoothed speed.
C6_Witness ==
  /\ variant = "isr"
  /\ Ticked
  /\ op.timedOut
  /\ ~FIsZero(op.emaBefore)

(***************************************************************************)
(* Claims: load cells                                                      *)
(***************************************************************************)
\* The last operation was a call of a load-cell function.
LoadCellOp == op.name \in {"updateLoadCell", "tareLoadCell", "calibrateLoadCell"}

\* x is within one part in 2^22 of w.
FNear(x, w) == FMagLt(FSub(x, w), FMul(FAbs(w), [s |-> 0, m |-> 2^23, e |-> -45]))

\* C7: calibrateLoadCell(c, w) with w <= 0, for a channel index in range or
\* not, changes no load-cell state of any channel.
C7_NonPositiveWeightChangesNothing ==
  [][(op'.name = "calibrateLoadCell" /\ ~FPos(op'.weight))
       => UNCHANGED lcVars]_vars

\* C7 witness: a calibration with a non-positive weight has been rejected on a
\* channel whose last raw reading differs from its offset.
C7_Witness ==
  /\ op.name = "calibrateLoadCell"
  /\ ~FPos(op.weight)
  /\ InRange(op.cell)
  /\ lastHxRaw[op.cell] # hx711Offset[op.cell]

\* The last operation was a flush of a channel calibrated with d > 0, and the
\* flush averaged to the raw reading the calibration saw.
FlushAfterCalibration ==
  /\ op.name = "updateLoadCell"
  /\ op.flushed
  /\ lastCal[op.cell].kind = "cal"
  /\ lastCal[op.cell].d > 0
  /\ op.avgRaw = lastCal[op.cell].raw

\* C8 (as claimed): after calibrateLoadCell(c, w) with w > 0 and
\* d = lastRaw - offset > 0, a flush whose averaged raw equals the same
\* lastRaw computes an instantaneous force of exactly w.
C8_FlushYieldsExactlyWeight ==
  FlushAfterCalibration => op.instKg = lastCal[op.cell].w

\* C8 (amended): the calibration stores scale = d / w rounded to float
\* (d = 5000, w = 10 gives 500), and such a flush computes d / scale rounded
\* to float, which is within one part in 2^22 of w, and is exactly 10 for
\* d = 5000, w = 10.
C8_CalibrationRoundTrip ==
  /\ (op.name = "calibrateLoadCell" /\ op.accepted) =>
       /\ hx711ScaleCountsPerKg[op.cell] = FDiv(FInt(op.diff), op.weight)
       /\ (op.diff = 5000 /\ op.weight = FInt(10)) =>
            hx711ScaleCountsPerKg[op.cell] = FInt(500)
  /\ FlushAfterCalibration =>
       /\ op.instKg = FDiv(FInt(lastCal[op.cell].d),
                           FDiv(FInt(lastCal[op.cell].d), lastCal[op.cell].w))
       /\ FNear(op.instKg, lastCal[op.cell].w)
       /\ (lastCal[op.cell].d = 5000 /\ lastCal[op.cell].w = FInt(10)) =>
            op.instKg = FInt(10)

\* C8 witness: the flush after the calibration with d = 5000, w = 10.
C8_Witness ==
  /\ FlushAfterCalibration
  /\ lastCal[op.cell].d = 5000
  /\ lastCal[op.cell].w = FInt(10)
  /\ hx711ScaleCountsPerKg[op.cell] = FInt(500)

\* C9 (as claimed): in every reachable state each channel's scale factor is
\* strictly positive.
C9_ScaleAlwaysPositive ==
  \A c \in Cells : FPos(hx711ScaleCountsPerKg[c])

\* C10: for a channel index out of range the getters return 0, and
\* updateLoadCell, tareLoadCell and calibrateLoadCell change no load-cell
\* state, read no pin and pulse no clock line.
C10_OutOfRangeIndexIsInert ==
  /\ [](\A c \in CellIndices : ~InRange(c) =>
          /\ getForceKg(c) = FZero
          /\ getRawReading(c) = 0
          /\ getScaleFactor(c) = FZero)
  /\ [][(LoadCellOp' /\ ~InRange(op'.cell))
          => /\ UNCHANGED lcVars
             /\ op'.name = "updateLoadCell" =>
                  (op'.doutReads = 0 /\ op'.sckPulses = 0)]_vars

\* C10 witness: updateLoadCell has been called with an index out of range
\* while a channel in range holds accumulated samples.
C10_Witness ==
  /\ op.name = "updateLoadCell"
  /\ ~InRange(op.cell)
  /\ \E c \in Cells : hxCount[c] > 0

\* The load-cell state of channel c.
ChannelState(c) ==
  <<hxAccum[c], hxCount[c], hx711Offset[c], hx711ScaleCountsPerKg[c],
    hx711Tared[c], lastHxRaw[c], filteredForceKg[c], lastForceUpdateUs[c]>>

\* C11: a call of updateLoadCell, tareLoadCell or calibrateLoadCell on one
\* channel leaves every state variable of the other channel unchanged, in
\* every interleaving of calls on the two channels.
C11_ChannelIsolation ==
  [][LoadCellOp' =>
       \A j \in Cells : j # op'.cell => ChannelState(j)' = ChannelState(j)]_vars

\* C11 witness: channel 0 has just been tared to a nonzero reading while
\* channel 1 holds a reading that differs from its own offset.
C11_Witness ==
  /\ op.name = "tareLoadCell"
  /\ op.cell = 0
  /\ hx711Offset[0] # 0
  /\ lastHxRaw[1] # hx711Offset[1]

\* A flush of channel c that averaged to the offset of its last tare.
TaredFlush(c) ==
  /\ op.name = "updateLoadCell" /\ op.cell = c /\ op.flushed
  /\ lastTare[c].kind = "tare"

\* C12 (as claimed): tareLoadCell(c) sets offset[c] to the last averaged raw
\* reading at once; every later flush that averages to that offset computes
\* an instantaneous force of 0, the magnitude of a nonzero filtered force
\* shrinks with each such flush, and it eventually falls below any positive
\* bound, the smallest positive float included.
C12_AsClaimed ==
  /\ [](\A c \in Cells : lastTare[c].kind = "tare" =>
          /\ hx711Offset[c] = lastTare[c].raw
          /\ (op.name = "tareLoadCell" /\ op.cell = c) =>
               hx711Offset[c] = lastHxRaw[c])
  /\ [](\A c \in Cells : TaredFlush(c) =>
          /\ op.instKg = FZero
          /\ ~FIsZero(op.prev) => FMagLt(filteredForceKg[c], op.prev))
  /\ \A c \in Cells :
       (lastTare[c].kind = "tare") ~> FMagLt(filteredForceKg[c], SmallestFloat)

\* C12 (amended): tareLoadCell(c) sets offset[c] to the last averaged raw
\* reading at once; every later flush that averages to that offset computes
\* an instantaneous force of 0 and replaces the filtered force by its float
\* product with (1 - FORCE_IIR_ALPHA); the magnitude never grows, shrinks
\* strictly while it is a normal float, and eventually falls below the
\* smallest normal float (2^-126).
C12_TareSettlesBelowNormalRange ==
  /\ [](\A c \in Cells : lastTare[c].kind = "tare" =>
          /\ hx711Offset[c] = lastTare[c].raw
          /\ (op.name = "tareLoadCell" /\ op.cell = c) =>
               hx711Offset[c] = lastHxRaw[c])
  /\ [](\A c \in Cells : TaredFlush(c) =>
          /\ op.instKg = FZero
          /\ filteredForceKg[c] =
               FMul(FSub(FInt(1), FORCE_IIR_ALPHA), op.prev)
          /\ ~FMagLt(op.prev, filteredForceKg[c])
          /\ ~FMagLt(op.prev, SettleBound) =>
               FMagLt(filteredForceKg[c], op.prev))
  /\ \A c \in Cells :
       (lastTare[c].kind = "tare") ~> FMagLt(filteredForceKg[c], SettleBound)

\* C12 witness: flushes at the tared reading have brought a filtered force
\* of channel 0 below the smallest normal float, where it stays, nonzero.
C12_Witness ==
  /\ TaredFlush(0)
  /\ Settled(0)
  /\ ~FIsZero(filteredForceKg[0])
  /\ FMagLt(filteredForceKg[0], SettleBound)

\* C13: the index flag is a consume-and-clear latch.  Outside the moment
\* between the read and the clear, the flag is set exactly when isrZ has seen
\* the index line high since the last read; so a read yields true exactly
\* when isrZ did since the read before, the clear leaves the flag false, and
\* a pulse whose handler runs at any point, also one deferred by the critical
\* section, is still there for the next read.
C13_IndexFlagIsLatch ==
  /\ pc # "t_clear" => indexFlag = hist.zSince
  /\ pc \in {"t_clear", "t_on", "t_edge", "t_done"} => loc.zSeen = loc.zWas
  /\ (Ticked /\ pc = "idle") => op.zSeen = op.zWas

\* C13 witness: a tick has read true for an index pulse that arrived inside
\* the critical section of the tick before, and has cleared the flag.
C13_Witness ==
  /\ Ticked
  /\ pc = "idle"
  /\ op.zSeen
  /\ op.zLate
  /\ ~indexFlag

\* C14 (as claimed): in both builds getPosition() returns a position the
\* decoder held at some instant during the call.
C14_GetPositionIsSnapshot ==
  op.name = "getPosition" => op.ret \in op.held

\* C20 (as claimed): every interrupt-domain value a tick uses is the value
\* of one instant, that of its critical section: lastEdgeMicros, as the edge
\* speed and the velocity timeout use it, is what it was when the position
\* was copied.
C20_TickUsesOneSnapshot ==
  (Ticked /\ pc = "idle") =>
    /\ op.edgeAt233 = op.edgeAtCopy
    /\ op.edgeAt262 = op.edgeAtCopy

\* C23 (as claimed): a tick of the software decoder takes the velocity-timeout
\* branch, and zeroes a blended speed that is not zero, only if the last
\* accepted edge is more than VELOCITY_TIMEOUT_US old when the tick compares;
\* an edge accepted after the caller sampled
\* currentTime and before the comparison keeps the blended value.
C23_TimeoutNeedsQuietLine ==
  (Ticked /\ pc = "idle" /\ variant = "isr" /\ op.timedOut
     /\ ~FIsZero(Blend(op.cpsWindow, op.cpsEdge))) =>
    Gt32(Sub32(op.now, op.edgeAt262), ToU32(VELOCITY_TIMEOUT_US))

\* C24: in the ISR build, however isrA / isrB interleave with
\* resetPosition() or setPosition(p), positionCounts is the value written
\* plus the deltas of the edges accepted after the write, and the
\* deltaCounts of the first tick after the write is the sum of the deltas
\* accepted between the write and the tick's copy of the position.
C24_WriteKeepsEveryEdge ==
  variant = "isr" =>
    /\ hist.wrote => positionCounts = hist.written + hist.since
    /\ (Ticked /\ op.fresh) => op.deltaCounts = op.since

C24_Witness ==
  /\ variant = "isr"
  /\ Ticked
  /\ op.fresh
  /\ op.race
  /\ op.since # 0
  /\ hist.written = 5
  /\ op.pos = 5 + op.since

(***************************************************************************)
(* Claims: the flush policy                                                *)
(***************************************************************************)
\* C15: a call of updateLoadCell on channel c at time t empties the batch
\* exactly when the count after the call's sample has reached
\* HX711_READ_SAMPLES or (t - lastForceUpdateUs[c]) mod 2^32 exceeds the
\* flush timeout, and keeps the batch otherwise; a flush of a batch that is
\* not empty stores the truncated average as the last raw value, filters the
\* force and stamps t; a flush of an empty batch changes none of the last
\* raw value, the offset, the tared flag, the filtered force or the stamp.
C15_FlushPolicy ==
  (op.name = "updateLoadCell" /\ InRange(op.cell)) =>
    LET c     == op.cell
        t     == op.time
        sum   == op.accum
        n     == op.old.hxCount + (IF op.sampled THEN 1 ELSE 0)
        due   == \/ n >= HX711_READ_SAMPLES
                 \/ Gt32(Sub32(t, op.old.lastForceUpdateUs), ToU32(FLUSH_TIMEOUT_US))
        avg   == TruncDiv(sum, n)
        off   == IF op.old.hx711Tared THEN op.old.hx711Offset ELSE avg
        force == IF FPos(hx711ScaleCountsPerKg[c])
                 THEN FDiv(FInt(avg - off), hx711ScaleCountsPerKg[c])
                 ELSE FZero
        kept  == /\ lastHxRaw[c] = op.old.lastHxRaw
                 /\ hx711Offset[c] = op.old.hx711Offset
                 /\ hx711Tared[c] = op.old.hx711Tared
                 /\ filteredForceKg[c] = op.prev
                 /\ lastForceUpdateUs[c] = op.old.lastForceUpdateUs
    IN IF due
       THEN /\ hxCount[c] = 0 /\ hxAccum[c] = 0
            /\ IF n > 0
               THEN /\ lastHxRaw[c] = avg
                    /\ filteredForceKg[c] =
                         FAdd(FMul(FORCE_IIR_ALPHA, force),
                              FMul(FSub(FInt(1), FORCE_IIR_ALPHA), op.prev))
                    /\ lastForceUpdateUs[c] = t
               ELSE kept
       ELSE /\ hxCount[c] = n /\ hxAccum[c] = sum
            /\ kept

\* A flush that the count alone has caused: the batch is full, the timeout
\* has not passed, and the average is not one of the samples.
C15_Witness ==
  /\ op.name = "updateLoadCell" /\ op.flushed
  /\ op.count = HX711_READ_SAMPLES
  /\ ~Gt32(op.elapsed, ToU32(FLUSH_TIMEOUT_US))
  /\ op.avgRaw * op.count # op.accum
  /\ lastHxRaw[op.cell] = op.avgRaw /\ hxCount[op.cell] = 0

\* C16 (as claimed): the first flush a channel ever makes, of a batch with
\* at least one sample, leaves the offset at that flush's average, the tared
\* flag set and an instantaneous force of zero, whether or not tareLoadCell
\* was called for the channel before.
C16_FirstFlushAutoZeroes ==
  (op.name = "updateLoadCell" /\ InRange(op.cell) /\ op.first) =>
    /\ hx711Offset[op.cell] = op.avgRaw
    /\ hx711Tared[op.cell]
    /\ op.instKg = FZero

(***************************************************************************)
(* Claims: the estimator's speeds                                          *)
(***************************************************************************)
\* C17: the blended speed of a tick is the window speed in the hardware
\* variant; in the software variant it is the window speed when its
\* magnitude is below 10 counts/s, else 0.7 * edge + 0.3 * window when the
\* window speed's magnitude is above 1000 counts/s and the edge speed is not
\* zero, else 0.5 * window + 0.5 * edge when neither is zero, and otherwise
\* whichever of the two is not zero.
C17_BlendIsFunctionOfSpeeds ==
  op.name = "blend" =>
    LET w == op.cpsWindow
        e == op.cpsEdge
    IN op.blended =
         IF variant = "pcnt" THEN w
         ELSE IF FMagLt(w, FInt(10)) THEN w
         ELSE IF FMagLt(FInt(1000), w) /\ ~FIsZero(e)
              THEN FAdd(FMul(FLit(7, 10), e), FMul(FLit(3, 10), w))
         ELSE IF ~FIsZero(w) /\ ~FIsZero(e)
              THEN FAdd(FMul(FLit(5, 10), w), FMul(FLit(5, 10), e))
         ELSE IF FIsZero(e) THEN w ELSE e

\* A software tick at high speed, whose blend is neither of its two speeds.
C17_Witness ==
  /\ op.name = "blend" /\ variant = "isr"
  /\ FMagLt(FInt(1000), op.cpsWindow) /\ ~FIsZero(op.cpsEdge)
  /\ op.blended # op.cpsWindow /\ op.blended # op.cpsEdge

\* C18 (as claimed): in a tick of a software decoder's estimator the edge
\* speed is zero when no edge was accepted since the tick before, here when
\* the tick follows another with nothing in between; and an edge speed that
\* is not zero has the direction of the last accepted edge and the magnitude
\* 1e6 / (microseconds between the last two accepted edges).
C18_EdgeSpeedNeedsEdgeSinceLastTick ==
  [][(variant \in {"isr", "sketch"} /\ op'.name = "tick" /\ op'.ticked) =>
       /\ (op.name = "tick" /\ op.ticked) => FIsZero(op'.cpsEdge)
       /\ (variant = "isr" /\ ~FIsZero(op'.cpsEdge)) =>
             op'.cpsEdge = FMul(FDiv(F1e6, FU32(edgeDeltaMicros)),
                                FInt(lastDeltaSign))]_vars

(***************************************************************************)
(* Claims: the pulse counter                                               *)
(***************************************************************************)
\* C19 (as claimed): in the hardware variant readPCNTPosition() is
\* (pcnt_overflow_count * 65536 + register) * 4, and pulses the counter counts
\* move it by 4 each in their direction, also when the register reaches a
\* limit and the limit handler runs.
C19_ReconstructionIsContinuous ==
  [][(variant = "pcnt" /\ op'.name = "pcnt") =>
       /\ readPCNTPosition' = (pcnt_overflow_count' * 65536 + pcntCount') * 4
       /\ readPCNTPosition' = readPCNTPosition + 4 * op'.n]_vars

(***************************************************************************)
(* Claims: the sampling window                                             *)
(***************************************************************************)
\* C21 (as claimed): in EncoderReader a call of updateEncoderSpeed(t) that
\* follows a tick with timestamp t0 (no other call in between) is a tick
\* exactly when (t - t0) mod 2^32 >= SPEED_SAMPLE_US, and a tick divides the
\* position delta by (t - t0) mod 2^32, whatever the 32-bit values of t and
\* t0.
C21_TickEveryWindow ==
  [][(variant \in {"isr", "pcnt"} /\ op.name = "tick" /\ op.ticked
        /\ op'.name = "tick") =>
       LET elapsed == Sub32(op'.time, op.time)
       IN /\ op'.ticked <=> Ge32(elapsed, ToU32(SPEED_SAMPLE_US))
          /\ op'.ticked =>
               op'.cpsWindow = WindowSpeed(op'.deltaCounts, elapsed)]_vars


(***************************************************************************)
(* Claims: one call of updateLoadCell                                       *)
(***************************************************************************)
\* C22: every call of updateLoadCell returns after a fixed number of
\* statements and never waits: 25 clock pulses (24 data bits and the gain
\* pulse) and one more accumulated sample when DOUT was LOW at entry, no
\* clock pulse and no sample otherwise.
C22_SamplingIsBounded ==
  /\ [](loc.routine \in {"updateLoadCell", "returned"} => loc.pulses <= 25)
  /\ []((pc = "idle" /\ loc.routine = "returned") =>
          /\ loc.pulses = IF loc.ready THEN 25 ELSE 0
          /\ loc.work = IF ~InRange(loc.cell) THEN 1
                         ELSE IF loc.ready THEN 28 ELSE 3
          /\ op.name = "updateLoadCell"
          /\ op.sckPulses = loc.pulses
          /\ InRange(loc.cell) =>
                /\ op.sampled = loc.ready
                /\ op.count = loc.count + (IF loc.ready THEN 1 ELSE 0))
  /\ (pc # "idle") ~> (pc = "idle")

C22_Witness ==
  /\ pc = "idle"
  /\ loc.routine = "returned"
  /\ loc.ready
  /\ loc.pulses = 25
  /\ op.sampled
  /\ op.count = loc.count + 1
  /\ loc.count > 0


(***************************************************************************)
(* Claims: the two direction logics                                        *)
(***************************************************************************)
\* C25: on each of the 8 transitions that change exactly one phase bit, the
\* branches of updateQuadrature and quadTable give the same delta, which is
\* +1 or -1 and the negation of the delta of the opposite transition; and
\* the standalone reader's handler applies exactly that delta.
C25_BranchesAgreeWithTable ==
  /\ \A la, lb, aState, bState \in BOOLEAN :
       LET old == AB(la, lb)
           new == AB(aState, bState)
           dir == QuadratureDir(la, lb, aState, bState)
       IN  SingleBit(old, new) =>
             /\ dir = TableDelta(old, new)
             /\ dir \in {-1, 1}
             /\ dir = -QuadratureDir(aState, bState, la, lb)
             /\ TableDelta(old, new) = -TableDelta(new, old)
  /\ Cardinality({t \in (0 .. 3) \X (0 .. 3) : SingleBit(t[1], t[2])}) = 8
  /\ (variant = "standalone" /\ op.name = "isr" /\ SingleBit(op.old, op.new)) =>
       /\ op.accept
       /\ lastEdgeDir = TableDelta(op.old, op.new)
       /\ AB(lastA, lastB) = op.new

C25_Witness ==
  /\ variant = "standalone"
  /\ op.name = "isr"
  /\ op.old = 3
  /\ op.new = 2
  /\ lastEdgeDir = 1
  /\ TableDelta(3, 2) = 1
  /\ positionCounts = 3

(***************************************************************************)
(* Claims: the batch in progress                                           *)
(***************************************************************************)
\* C26: after every call of updateLoadCell every channel holds fewer than
\* HX711_READ_SAMPLES samples and an accumulator of magnitude at most
\* (HX711_READ_SAMPLES - 1) * 2^23; inside the call the count never exceeds
\* HX711_READ_SAMPLES (so the 8-bit count does not wrap), the accumulator
\* never exceeds HX711_READ_SAMPLES * 2^23 in magnitude (so the 32-bit sum
\* does not overflow), and a flush divides by a count that is not zero.
C26_BatchStaysInRange ==
  /\ \A c \in Cells :
       /\ hxCount[c] >= 0
       /\ hxCount[c] < HX711_READ_SAMPLES
       /\ hxAccum[c] <= (HX711_READ_SAMPLES - 1) * 2^23
       /\ -hxAccum[c] <= (HX711_READ_SAMPLES - 1) * 2^23
  /\ (op.name = "updateLoadCell" /\ InRange(op.cell)) =>
       /\ op.count = op.old.hxCount + (IF op.sampled THEN 1 ELSE 0)
       /\ op.count <= HX711_READ_SAMPLES
       /\ op.accum <= HX711_READ_SAMPLES * 2^23
       /\ -op.accum <= HX711_READ_SAMPLES * 2^23
       /\ op.flushed => op.count > 0

C26_Witness ==
  /\ op.name = "updateLoadCell"
  /\ op.sampled
  /\ ~op.due
  /\ hxCount[op.cell] = HX711_READ_SAMPLES - 1
  /\ hxAccum[op.cell] = -((HX711_READ_SAMPLES - 1) * 2^23)
====
